---------------------------- MODULE Spec2Model ----------------------------
(***************************************************************************)
(* Turn-taking and barge-in controller of the realtime voice agent.        *)
(*                                                                         *)
(* One call is modelled: the websocket endpoint of src/src/server.py with  *)
(* its two tasks (receive_audio, process_speech), the response task that   *)
(* process_speech races against the onset signal (do_full_response,        *)
(* _process_with_input_streaming and its forward_audio task), the agent's  *)
(* process_message generator of src/src/ai_agent.py and the recognizer     *)
(* callback and synthesis session of src/src/voice_handler.py.             *)
(*                                                                         *)
(* asyncio runs the tasks of a call on one thread: the code between two    *)
(* awaits is atomic, so an action below is the code from one await to the  *)
(* next.  Two consecutive stretches are one action where no other task     *)
(* reads or writes what the first one wrote (a connect or a close of a     *)
(* synthesis session that only the controller holds).                      *)
(*                                                                         *)
(* Strings are modelled by what the code does with them: an utterance is   *)
(* the sequence of the recognizer's final fragments it is made of          *)
(* (joining with " " is concatenation), a mark name is its number          *)
(* (0: "greeting_end", k > 0: "response_end_k").  Locals whose value is    *)
(* dead hold their initial value.                                          *)
(***************************************************************************)
EXTENDS Integers, Sequences, FiniteSets, TLC

\* Number of final transcripts the recognizer delivers during the call.
MaxFinals == 2

\* Number of audio chunks a synthesis request returns at most.
MaxChunks == 1

\* Number of text increments one agent stream yields at most.
MaxText == 1

\* The one call of the model.
CallSid == "CA1"

\* _VAD_THRESHOLD and _VAD_FRAMES_REQUIRED
VadThreshold == 500
VadFramesRequired == 3

\* len(text_buffer) >= 15
MinFlushChars == 15

\* Text increments in a stream given to the buffering loop on its own.
MaxIncs == 3

\* Final fragments and audio chunks of a turn whose audio path runs on its
\* own.
MaxGuardFinals == 5
MaxGuardChunks == 4

\* Failed agent requests and broken synthesis connections in a turn.
MaxFaults == 1

\* Audio chunks a synthesis session produced before its connection closes
\* with an error.
MaxChunksBeforeBreak == 0

\* RMS energies of the inbound frames: one at the threshold, one above it.
FrameRms == {VadThreshold, VadThreshold + 1}

VARIABLES
    chan,                 \* the telephony websocket: "open" or "closed"
    sent,                 \* events sent on the channel since the controller
                          \* last began a turn or went back to wait for one
    marks,                \* numbers of the marks sent during the call
    echoQ,                \* marks sent and not yet echoed by the far end
    rpc,                  \* receive_audio: position
    greetLeft,            \* receive_audio: greeting chunks still to send
    stream_sid,           \* TRUE once the start event set it
    active_calls,         \* the registry of active calls
    vad_frames,           \* receive_audio: consecutive high-energy frames
    is_agent_speaking,    \* the agent-speaking flag of the endpoint
    speech_detected,      \* VoiceHandler.speech_detected (asyncio.Event)
    transcript_queue,     \* VoiceHandler.transcript_queue
    dg,                   \* recognizer connection: "none", "started", "finished"
    nFinals,              \* finals delivered so far
    conversation_history, \* AIAgent.conversation_history
    pc,                   \* process_speech: position
    transcript,           \* process_speech: utterance of the turn
    history_checkpoint,   \* process_speech: len(history) before the turn
    response_counter,     \* process_speech: number of the last mark
    pending_tts_stream,   \* pre-warmed session: "none" or "open"
    tts_stream,           \* session of the turn: "none" or "open"
    extra_parts,          \* fragments the guard took from the queue
    audio_started,        \* guard: first chunk of the turn was let through
    rest_left,            \* synthesize_and_send: chunks still to send
    rt,                   \* response task: position
    ag,                   \* process_message generator: position
    nText,                \* text increments of the current agent stream
    response_text,        \* TRUE when the current stream yielded text
    text_buffer,          \* the consumer's buffered text increments
    aborted,              \* _process_with_input_streaming: aborted event
    agent_error,          \* process_message yielded its error event
    attempt,              \* the call of _process_with_input_streaming that
                          \* do_full_response is in: "first" (in its try),
                          \* "second" (in a handler), "none"
    audio_task,           \* forward_audio task: position
    audio_queue,          \* ElevenLabsInputStreamer.audio_queue
    tts_fed,              \* the session received text
    tts_eos,              \* end-of-input was signalled to the session
    tts_made,             \* chunks the session produced
    history_pre,          \* the history when the checkpoint was taken
    outcome,              \* how the last turn ended ("none": none ended
                          \* since the last one began)
    rolled_back,          \* entries the rollback of that turn removed
    prewarmed,            \* the controller tried to connect a pre-warmed
                          \* session since it last began a turn
    stop_pc,              \* where the controller was when the stop event
                          \* was handled: "playback" or "other" ("none":
                          \* no stop event so far)
    tool_runs,            \* tools executed since the turn began
    ended,                \* the endpoint's finally block has run
    fl_in,                \* a stream of text increments given to the buffering
                          \* loop of _process_with_input_streaming
    fl_pos,               \* the next increment the loop reads
    fl_buf,               \* text_buffer of that loop
    fl_out,               \* the texts the loop passed to send_text, in order
    g_attempt,            \* the audio path of one turn on its own: where
                          \* do_full_response is ("first", "restart",
                          \* "second", "done")
    g_transcript,         \* its utterance
    g_queue,              \* the transcript queue
    g_finals,             \* final fragments queued so far
    g_parts,              \* extra_parts
    g_started,            \* audio_started
    g_sent,               \* chunks the attempt sent to the channel
    g_restarts,           \* restarts of the turn so far
    v_speaking,           \* the VAD of receive_audio on its own:
                          \* is_agent_speaking
    v_frames,             \* vad_frames
    v_pc,                 \* "recv", or "clearing" while clear is being sent
    v_detected,           \* speech_detected
    v_log,                \* the frames received so far: RMS, the flag when
                          \* the frame was received, onset raised or not
    s_pc,                 \* the sessions of process_speech on their own:
                          \* where the controller is ("prewarm", "idle",
                          \* "first", "second", "failed", "rest", "done")
    s_pending,            \* pending_tts_stream: a session id, 0 for None
    s_stream,             \* tts_stream: a session id, 0 for None
    s_state,              \* per session created: "open", "failed" (connect
                          \* raised), "dropped" (by the far end), "closed"
    s_fed,                \* per session: the attempts that sent text to it
    s_att,                \* attempts started so far
    s_turns,              \* turns started so far
    a_pc,                 \* the audio path of one attempt on its own:
                          \* forward_audio ("get", "send", "done", "raised",
                          \* "cancelled")
    a_queue,              \* ElevenLabsInputStreamer.audio_queue
    a_made,               \* chunks the session produced
    a_recv,               \* _receive_audio: "run" or "done"
    a_held,               \* the chunk forward_audio is sending (0: none)
    a_sent,               \* the chunks sent to the channel, in order
    r_active,             \* the registry with several sessions side by
                          \* side: active_calls, per call id the stream of
                          \* its entry (0: no entry)
    r_call_sid,           \* per session: call_sid (0 for None)
    r_phase,              \* per session: "accepted", "started", "stopped",
                          \* "disconnected" (loop over, no stop), "ended"
    b_text,               \* _find_sentence_boundary on its own: its argument
    b_called,             \* the function was called
    b_result,             \* what it returned
    h_transcribing,       \* a VoiceHandler on its own: is_transcribing
    h_tasks,              \* per transcription task created: "start",
                          \* "stream", "finish", "ended"
    h_buffer,             \* audio_buffer
    h_in,                 \* frames passed to process_incoming_audio
    h_taken,              \* frames the task took from the buffer, in order
    x_calls,              \* process_message on its own: tool_calls of the reply
    x_pc,                 \* where the generator is
    x_history,            \* its conversation_history
    x_results,            \* tool_results_content
    x_events,             \* the events it yielded, in order
    p_in,                 \* the loop of _process_with_input_streaming on its own: the events the generator yields
    p_pos,                \* the next event
    p_buf,                \* text_buffer
    p_out,                \* the texts passed to send_text, in order
    p_eos,                \* flush() was called
    y_attempt,            \* do_full_response and a session that closes mid-stream, on their own: "first", "restart", "second", "done", "failed"
    y_session,            \* the attempt's session: "open" or "broken"
    y_gen,                \* text increments the agent yielded in the attempt
    y_made,               \* chunks the session produced for them
    y_queue,              \* chunks in audio_queue
    y_sent,               \* what the channel was sent, in order
    m_file,               \* two calls over one appointments file, on their own: the file's content, per id the record
    m_apps,               \* per call, self.appointments of its AppointmentManager
    m_state,              \* per call: "new", "active", "ended"
    m_now,                \* datetime.now(): the second
    k_appointments,       \* an AppointmentManager on its own:
                          \* self.appointments, per id the record
    k_now,                \* datetime.now(): the second of the day
    k_calls,              \* calls of book_appointment so far
    k_last                \* the last call: its arguments and what it
                          \* returned

chanVars == <<chan, sent, marks, echoQ>>
recvVars == <<rpc, greetLeft, stream_sid, active_calls, vad_frames>>
vhVars   == <<speech_detected, transcript_queue, dg, nFinals>>
ctlVars  == <<pc, transcript, history_checkpoint, response_counter,
              pending_tts_stream, tts_stream, extra_parts, audio_started,
              rest_left>>
taskVars == <<rt, ag, nText, response_text, text_buffer, aborted, agent_error,
              attempt, audio_task>>
ttsVars  == <<audio_queue, tts_fed, tts_eos, tts_made>>
ghostVars == <<history_pre, outcome, rolled_back, prewarmed, stop_pc,
               tool_runs>>

flushVars == <<fl_in, fl_pos, fl_buf, fl_out>>
guardVars == <<g_attempt, g_transcript, g_queue, g_finals, g_parts, g_started,
               g_sent, g_restarts>>

vadVars == <<v_speaking, v_frames, v_pc, v_detected, v_log>>
sessVars == <<s_pc, s_pending, s_stream, s_state, s_fed, s_att, s_turns>>
fwdVars == <<a_pc, a_queue, a_made, a_recv, a_held, a_sent>>
regVars == <<r_active, r_call_sid, r_phase>>
boundVars == <<b_text, b_called, b_result>>
vhSideVars == <<h_transcribing, h_tasks, h_buffer, h_in, h_taken>>
bookVars == <<k_appointments, k_now, k_calls, k_last>>
toolVars == <<x_calls, x_pc, x_history, x_results, x_events>>
pipeVars == <<p_in, p_pos, p_buf, p_out, p_eos>>
retryVars == <<y_attempt, y_session, y_gen, y_made, y_queue, y_sent>>
fileVars == <<m_file, m_apps, m_state, m_now>>
sideVars == <<vadVars, sessVars, fwdVars, regVars, boundVars, vhSideVars,
             bookVars,
             toolVars,
             pipeVars,
             retryVars,
             fileVars>>

vars == <<chanVars, recvVars, vhVars, ctlVars, taskVars, ttsVars, ghostVars,
          is_agent_speaking, conversation_history, ended, flushVars, guardVars, sideVars>>

-----------------------------------------------------------------------------
(* Events on the channel *)

\* A media event: chunk k of the audio that answers utterance utt (the
\* greeting answers none).
Media(utt, k) == [ev |-> "media", utt |-> utt, n |-> k]
Clear         == [ev |-> "clear", utt |-> <<>>, n |-> 0]
Mark(k)       == [ev |-> "mark",  utt |-> <<>>, n |-> k]

\* The end-of-audio sentinel of ElevenLabsInputStreamer.audio_queue (None).
EndOfAudio == 0

\* History entries: role and content; "re" is the utterance a reply answers.
UserMsg(utt)       == [role |-> "user", content |-> "text", re |-> utt]
AssistantMsg(utt)  == [role |-> "assistant", content |-> "text", re |-> utt]
ToolUseMsg(utt)    == [role |-> "assistant", content |-> "tool_use", re |-> utt]
ToolResultMsg(utt) == [role |-> "user", content |-> "tool_result", re |-> utt]
GreetingMsg        == [role |-> "assistant", content |-> "greeting", re |-> <<>>]

\* A slice that keeps the whole list.
TruncateKeepsAll(h, n) == h

\* history[:n]
Truncate(h, n) == SubSeq(h, 1, IF n < Len(h) THEN n ELSE Len(h))

\* " ".join(parts): each part is an utterance, a sequence of fragments.
RECURSIVE Join(_)
Join(parts) == IF parts = <<>> THEN <<>> ELSE Head(parts) \o Join(Tail(parts))

\* A counter that is not incremented.
NextMarkStuck(c) == c

\* response_counter += 1
NextMark(c) == c + 1

-----------------------------------------------------------------------------
\* The state after the endpoint accepted the websocket.
CallInit ==
    /\ chan = "open" /\ sent = <<>> /\ marks = <<>> /\ echoQ = <<>>
    /\ rpc = "recv" /\ greetLeft = 0 /\ stream_sid = FALSE
    /\ active_calls = {} /\ vad_frames = 0
    /\ is_agent_speaking = FALSE
    /\ speech_detected = FALSE /\ transcript_queue = <<>>
    /\ dg = "none" /\ nFinals = 0
    /\ conversation_history = <<>>
    /\ pc = "prewarm" /\ transcript = <<>> /\ history_checkpoint = 0
    /\ response_counter = 0
    /\ pending_tts_stream = "none" /\ tts_stream = "none"
    /\ extra_parts = <<>> /\ audio_started = FALSE /\ rest_left = 0
    /\ rt = "none" /\ ag = "none" /\ nText = 0 /\ response_text = FALSE
    /\ text_buffer = <<>> /\ aborted = FALSE /\ agent_error = FALSE
    /\ attempt = "none"
    /\ audio_task = "none"
    /\ audio_queue = <<>> /\ tts_fed = FALSE /\ tts_eos = FALSE /\ tts_made = 0
    /\ history_pre = <<>> /\ outcome = "none" /\ rolled_back = 0
    /\ prewarmed = FALSE
    /\ stop_pc = "none"
    /\ tool_runs = 0
    /\ ended = FALSE

\* The buffering loop and the audio path on their own are not running.
FlushIdle == fl_in = <<>> /\ fl_pos = 1 /\ fl_buf = <<>> /\ fl_out = <<>>

GuardIdle ==
    /\ g_attempt = "done" /\ g_transcript = <<>> /\ g_queue = <<>>
    /\ g_finals = 0 /\ g_parts = <<>> /\ g_started = FALSE /\ g_sent = 0
    /\ g_restarts = 0

VadIdle ==
    /\ v_speaking = FALSE /\ v_frames = 0 /\ v_pc = "recv"
    /\ v_detected = FALSE /\ v_log = <<>>

SessIdle ==
    /\ s_pc = "done" /\ s_pending = 0 /\ s_stream = 0
    /\ s_state = <<>> /\ s_fed = <<>> /\ s_att = 0 /\ s_turns = 0

FwdIdle ==
    /\ a_pc = "done" /\ a_queue = <<>> /\ a_made = 0 /\ a_recv = "done"
    /\ a_held = 0 /\ a_sent = <<>>

RegIdle ==
    /\ r_active = <<>> /\ r_call_sid = <<>> /\ r_phase = <<>>

BoundIdle == b_text = <<>> /\ b_called = TRUE /\ b_result = -1

VhIdle ==
    /\ h_transcribing = FALSE /\ h_tasks = <<>> /\ h_buffer = <<>>
    /\ h_in = 0 /\ h_taken = <<>>

BookIdle ==
    /\ k_appointments = <<>> /\ k_now = 0 /\ k_calls = 0 /\ k_last = <<>>

ToolIdle ==
    /\ x_calls = <<>> /\ x_pc = "done" /\ x_history = <<>>
    /\ x_results = <<>> /\ x_events = <<>>

PipeIdle ==
    /\ p_in = <<>> /\ p_pos = 1 /\ p_buf = <<>> /\ p_out = <<>>
    /\ p_eos = FALSE

RetryIdle ==
    /\ y_attempt = "done" /\ y_session = "open" /\ y_gen = 0 /\ y_made = 0
    /\ y_queue = 0 /\ y_sent = <<>>

FileIdle ==
    /\ m_file = <<>> /\ m_apps = <<>> /\ m_state = <<>> /\ m_now = 0

\* Every component that is checked on its own is at rest, except the named one.
SideIdleExcept(x) ==
    /\ IF x = "vad" THEN TRUE ELSE VadIdle
    /\ IF x = "sess" THEN TRUE ELSE SessIdle
    /\ IF x = "fwd" THEN TRUE ELSE FwdIdle
    /\ IF x = "reg" THEN TRUE ELSE RegIdle
    /\ IF x = "bound" THEN TRUE ELSE BoundIdle
    /\ IF x = "vh" THEN TRUE ELSE VhIdle
    /\ IF x = "book" THEN TRUE ELSE BookIdle
    /\ IF x = "tool" THEN TRUE ELSE ToolIdle
    /\ IF x = "pipe" THEN TRUE ELSE PipeIdle
    /\ IF x = "retry" THEN TRUE ELSE RetryIdle
    /\ IF x = "file" THEN TRUE ELSE FileIdle

Init == CallInit /\ FlushIdle /\ GuardIdle /\ SideIdleExcept("none")

-----------------------------------------------------------------------------
(* receive_audio: the loop over the channel's inbound events *)

\* VoiceHandler.process_incoming_audio: the frame is buffered and the
\* transcription task is started when none is running.
ProcessIncomingAudio == dg' = IF dg = "none" THEN "started" ELSE dg

\* The mark handler's test of the echoed name: any response_end mark and the
\* greeting mark pass it.
MarkEndsSpeaking(n) == n >= 1 \/ n = 0

\* Number of media events in the log.
MediaCount == Cardinality({i \in DOMAIN sent : sent[i].ev = "media"})

\* start: the call is registered, the greeting is appended to the history and
\* synthesize_and_send sets the flag and sends the first greeting chunk.
\* The far end sends start once, as the first event of the stream.
RecvStart ==
    /\ rpc = "recv" /\ chan = "open" /\ ~stream_sid
    /\ stream_sid' = TRUE
    /\ active_calls' = active_calls \cup {CallSid}
    /\ conversation_history' = Append(conversation_history, GreetingMsg)
    /\ is_agent_speaking' = TRUE
    /\ \E k \in 1..MaxChunks :
          /\ sent' = Append(sent, Media(<<>>, 1))
          /\ greetLeft' = k - 1
    /\ rpc' = "greeting"
    /\ UNCHANGED <<chan, marks, echoQ, vad_frames, vhVars, ctlVars, taskVars,
                   ttsVars, ghostVars, ended,
                   flushVars, guardVars, sideVars>>

\* The rest of the greeting: the remaining chunks, then send_mark("greeting_end").
\* A send on a closed channel raises and ends the loop (except Exception).
RecvGreeting ==
    /\ rpc = "greeting"
    /\ IF chan = "closed"
       THEN /\ rpc' = "done"
            /\ UNCHANGED <<sent, marks, echoQ, greetLeft>>
       ELSE IF greetLeft > 0
       THEN /\ sent' = Append(sent, Media(<<>>, MediaCount + 1))
            /\ greetLeft' = greetLeft - 1
            /\ UNCHANGED <<rpc, marks, echoQ>>
       ELSE /\ sent' = Append(sent, Mark(0))
            /\ marks' = Append(marks, 0)
            /\ echoQ' = Append(echoQ, 0)
            /\ rpc' = "recv"
            /\ UNCHANGED greetLeft
    /\ UNCHANGED <<chan, stream_sid, active_calls, vad_frames, vhVars, ctlVars,
                   taskVars, ttsVars, ghostVars, is_agent_speaking,
                   conversation_history, ended,
                   flushVars, guardVars, sideVars>>

\* media: the VAD counts consecutive frames above the threshold while the
\* flag is set; on the required count it sends clear (an await) before it
\* raises the onset.
RecvMedia ==
    /\ rpc = "recv" /\ chan = "open" /\ stream_sid
    /\ \E rms \in FrameRms :
        IF is_agent_speaking /\ rms > VadThreshold
           /\ vad_frames + 1 >= VadFramesRequired
        THEN /\ vad_frames' = vad_frames + 1
             /\ sent' = Append(sent, Clear)
             /\ rpc' = "vad_cleared"
             /\ UNCHANGED dg
        ELSE /\ vad_frames' = IF is_agent_speaking /\ rms > VadThreshold
                              THEN vad_frames + 1 ELSE 0
             /\ ProcessIncomingAudio
             /\ UNCHANGED <<sent, rpc>>
    /\ UNCHANGED <<chan, marks, echoQ, greetLeft, stream_sid, active_calls,
                   speech_detected, transcript_queue, nFinals, ctlVars,
                   taskVars, ttsVars, ghostVars, is_agent_speaking,
                   conversation_history, ended,
                   flushVars, guardVars, sideVars>>

\* After the clear was sent: the onset is raised, the flag and the counter
\* are reset and the frame goes to the recognizer.
RecvVadOnset ==
    /\ rpc = "vad_cleared"
    /\ speech_detected' = TRUE
    /\ is_agent_speaking' = FALSE
    /\ vad_frames' = 0
    /\ ProcessIncomingAudio
    /\ rpc' = IF chan = "closed" THEN "done" ELSE "recv"
    /\ UNCHANGED <<chanVars, greetLeft, stream_sid, active_calls,
                   transcript_queue, nFinals, ctlVars, taskVars, ttsVars,
                   ghostVars, conversation_history, ended,
                   flushVars, guardVars, sideVars>>

\* mark: the far end echoes the marks in the order they were sent.
RecvMark ==
    /\ rpc = "recv" /\ chan = "open" /\ echoQ # <<>>
    /\ echoQ' = Tail(echoQ)
    /\ is_agent_speaking' = IF MarkEndsSpeaking(Head(echoQ))
                            THEN FALSE ELSE is_agent_speaking
    /\ UNCHANGED <<chan, sent, marks, recvVars, vhVars, ctlVars, taskVars,
                   ttsVars, ghostVars, conversation_history, ended,
                   flushVars, guardVars, sideVars>>

\* stop: the call leaves the registry and the loop ends.
RecvStop ==
    /\ rpc = "recv" /\ chan = "open" /\ stream_sid
    /\ active_calls' = active_calls \ {CallSid}
    /\ rpc' = "done"
    /\ stop_pc' = IF pc = "playback" THEN "playback" ELSE "other"
    /\ UNCHANGED <<chanVars, greetLeft, stream_sid, vad_frames, vhVars,
                   ctlVars, taskVars, ttsVars, history_pre, outcome,
                   rolled_back, prewarmed, tool_runs, is_agent_speaking,
                   conversation_history, ended,
                   flushVars, guardVars, sideVars>>

\* A frame that json.loads rejects, or a start or media event without its
\* fields: the exception leaves the loop (except Exception) and the task ends.
RecvMalformed ==
    /\ rpc = "recv" /\ chan = "open"
    /\ rpc' = "done"
    /\ UNCHANGED <<chanVars, greetLeft, stream_sid, active_calls, vad_frames,
                   vhVars, ctlVars, taskVars, ttsVars, ghostVars,
                   is_agent_speaking, conversation_history, ended,
                   flushVars, guardVars, sideVars>>

\* The far end closes the socket: iter_text raises WebSocketDisconnect.
Disconnect ==
    /\ chan = "open"
    /\ chan' = "closed"
    /\ rpc' = IF rpc = "recv" THEN "done" ELSE rpc
    /\ UNCHANGED <<sent, marks, echoQ, greetLeft, stream_sid, active_calls,
                   vad_frames, vhVars, ctlVars, taskVars, ttsVars, ghostVars,
                   is_agent_speaking, conversation_history, ended,
                   flushVars, guardVars, sideVars>>

-----------------------------------------------------------------------------
(* The recognizer's callback *)

\* A variant of on_message that puts a final at the front of the queue.
OnMessageQueuesFirst ==
    /\ dg = "started"
    /\ \E is_final \in BOOLEAN :
        /\ speech_detected' = TRUE
        /\ IF is_final
           THEN /\ nFinals < MaxFinals
                /\ transcript_queue' = <<<<nFinals + 1>>>> \o transcript_queue
                /\ nFinals' = nFinals + 1
           ELSE UNCHANGED <<transcript_queue, nFinals>>
    /\ UNCHANGED <<chanVars, recvVars, dg, ctlVars, taskVars, ttsVars,
                   ghostVars, is_agent_speaking, conversation_history, ended,
                   flushVars, guardVars, sideVars>>

\* on_message: a non-blank result raises the onset; a final one is queued.
\* A blank result changes nothing.
OnMessage ==
    /\ dg = "started"
    /\ \E is_final \in BOOLEAN :
        /\ speech_detected' = TRUE
        /\ IF is_final
           THEN /\ nFinals < MaxFinals
                /\ transcript_queue' = Append(transcript_queue, <<nFinals + 1>>)
                /\ nFinals' = nFinals + 1
           ELSE UNCHANGED <<transcript_queue, nFinals>>
    /\ UNCHANGED <<chanVars, recvVars, dg, ctlVars, taskVars, ttsVars,
                   ghostVars, is_agent_speaking, conversation_history, ended,
                   flushVars, guardVars, sideVars>>

-----------------------------------------------------------------------------
(* process_speech: the turn controller *)

\* No response task: the locals of the pipeline hold their initial values.
NoTask ==
    /\ rt' = "none" /\ ag' = "none" /\ nText' = 0 /\ response_text' = FALSE
    /\ text_buffer' = <<>> /\ aborted' = FALSE /\ audio_task' = "none"
    /\ agent_error' = FALSE /\ attempt' = "none"

\* ElevenLabsInputStreamer.__init__: a session object with an empty queue.
FreshSession ==
    /\ audio_queue' = <<>> /\ tts_fed' = FALSE /\ tts_eos' = FALSE
    /\ tts_made' = 0

\* asyncio.create_task(do_full_response()): the guard's locals are reset and
\* the task is ready to run its first attempt, with the guarded send.
LaunchTask ==
    /\ extra_parts' = <<>> /\ audio_started' = FALSE
    /\ rt' = "run" /\ ag' = "init" /\ nText' = 0 /\ response_text' = FALSE
    /\ text_buffer' = <<>> /\ aborted' = FALSE /\ audio_task' = "guarded"
    /\ agent_error' = FALSE /\ attempt' = "first"
    /\ FreshSession

\* An exception leaves the loop of process_speech: the finally clause closes
\* the pre-warmed session and the task ends.
ControllerRaise ==
    /\ pc' = "done"
    /\ pending_tts_stream' = "none"

\* create_tts_stream() and connect(): a failed connect leaves no session.
PrewarmSession ==
    /\ \E ok \in BOOLEAN : pending_tts_stream' = IF ok THEN "open" ELSE "none"
    /\ prewarmed' = TRUE

\* The pre-warm before the loop.
Prewarm ==
    /\ pc = "prewarm"
    /\ PrewarmSession
    /\ pc' = "idle"
    /\ UNCHANGED <<chanVars, recvVars, vhVars, transcript, history_checkpoint,
                   response_counter, tts_stream, extra_parts, audio_started,
                   rest_left, taskVars, ttsVars, history_pre, outcome,
                   rolled_back, stop_pc, tool_runs, is_agent_speaking,
                   conversation_history, ended,
                   flushVars, guardVars, sideVars>>

\* A start of a turn that leaves a pre-warmed session it cannot use as it is,
\* without closing it, and connects inline.
BeginTurnKeepsStale(utt) ==
    /\ speech_detected' = FALSE
    /\ is_agent_speaking' = TRUE
    /\ history_checkpoint' = Len(conversation_history)
    /\ history_pre' = conversation_history
    /\ outcome' = "none" /\ rolled_back' = 0 /\ prewarmed' = FALSE
    /\ UNCHANGED stop_pc
    /\ tool_runs' = 0
    /\ sent' = <<>>
    /\ \E live \in BOOLEAN :
        /\ pending_tts_stream' = IF live THEN "none" ELSE pending_tts_stream
        /\ IF pending_tts_stream = "open" /\ live
           THEN /\ tts_stream' = "open"
                /\ LaunchTask
                /\ pc' = "race"
           ELSE /\ tts_stream' = "none"
                /\ pc' = "connect"
                /\ UNCHANGED <<extra_parts, audio_started, taskVars,
                               ttsVars>>

\* The start of a turn for utterance utt: the onset is cleared, the flag set
\* and the checkpoint taken.  A pre-warmed session whose socket is still
\* open is used and the response task launched; otherwise the pre-warmed
\* session is closed and a session connected inline.
BeginTurn(utt) ==
    /\ speech_detected' = FALSE
    /\ is_agent_speaking' = TRUE
    /\ history_checkpoint' = Len(conversation_history)
    /\ history_pre' = conversation_history
    /\ outcome' = "none" /\ rolled_back' = 0 /\ prewarmed' = FALSE
    /\ UNCHANGED stop_pc
    /\ tool_runs' = 0
    /\ sent' = <<>>
    /\ pending_tts_stream' = "none"
    /\ \E live \in BOOLEAN :
        IF pending_tts_stream = "open" /\ live
        THEN /\ tts_stream' = "open"
             /\ LaunchTask
             /\ pc' = "race"
        ELSE /\ tts_stream' = "none"
             /\ pc' = "connect"
             /\ UNCHANGED <<extra_parts, audio_started, taskVars, ttsVars>>

\* A final transcript is taken from the queue (the recognizer queues no
\* blank one).  While the flag is set the playback is interrupted first
\* (clear, an await); otherwise the turn starts.
Dequeue ==
    /\ pc = "idle" /\ transcript_queue # <<>>
    /\ LET utt == Head(transcript_queue) IN
       /\ transcript' = utt
       /\ transcript_queue' = Tail(transcript_queue)
       /\ IF is_agent_speaking
          THEN /\ IF chan = "closed"
                  THEN /\ ControllerRaise
                       /\ UNCHANGED sent
                  ELSE /\ sent' = Append(sent, Clear)
                       /\ pc' = "pb_interrupt"
                       /\ UNCHANGED pending_tts_stream
               /\ UNCHANGED <<speech_detected, history_checkpoint,
                              tts_stream, extra_parts, audio_started,
                              taskVars, ttsVars, ghostVars, is_agent_speaking>>
          ELSE BeginTurn(utt)
    /\ UNCHANGED <<chan, marks, echoQ, recvVars, dg, nFinals, response_counter,
                   rest_left, conversation_history, ended,
                   flushVars, guardVars, sideVars>>

\* After the clear of an interrupted playback: the turn starts.
StartAfterClear ==
    /\ pc = "pb_interrupt"
    /\ BeginTurn(transcript)
    /\ UNCHANGED <<chan, marks, echoQ, recvVars, transcript_queue, dg, nFinals,
                   transcript, response_counter, rest_left,
                   conversation_history, ended,
                   flushVars, guardVars, sideVars>>

\* A variant of the inline connect whose failure leaves the controller's loop.
ConnectFailureRaises ==
    /\ pc = "connect"
    /\ \E ok \in BOOLEAN :
        IF ok
        THEN /\ tts_stream' = "open"
             /\ LaunchTask
             /\ pc' = "race"
             /\ UNCHANGED pending_tts_stream
        ELSE /\ ControllerRaise
             /\ UNCHANGED <<tts_stream, extra_parts, audio_started, taskVars,
                            ttsVars>>
    /\ UNCHANGED <<chanVars, recvVars, vhVars, transcript, history_checkpoint,
                   response_counter, rest_left, ghostVars,
                   is_agent_speaking, conversation_history, ended,
                   flushVars, guardVars, sideVars>>

\* The inline connect returns: the response task is launched on the new
\* session, or the turn falls back to sentence-by-sentence synthesis.
Connect ==
    /\ pc = "connect"
    /\ \E ok \in BOOLEAN :
        IF ok
        THEN /\ tts_stream' = "open"
             /\ LaunchTask
             /\ pc' = "race"
        ELSE /\ pc' = "rest"
             /\ ag' = "init"
             /\ UNCHANGED <<tts_stream, extra_parts, audio_started, rt, nText,
                            response_text, text_buffer, aborted, agent_error, attempt, audio_task,
                            ttsVars>>
    /\ UNCHANGED <<chanVars, recvVars, vhVars, transcript, history_checkpoint,
                   response_counter, pending_tts_stream, rest_left, ghostVars,
                   is_agent_speaking, conversation_history, ended,
                   flushVars, guardVars, sideVars>>

\* A completion in which the exception of a failed response task leaves the
\* controller's loop.
SendResponseMarkOrRaise ==
    /\ response_counter' = NextMark(response_counter)
    /\ IF chan = "closed" \/ rt = "failed"
       THEN /\ ControllerRaise
            /\ UNCHANGED chanVars
       ELSE /\ sent' = Append(sent, Mark(NextMark(response_counter)))
            /\ marks' = Append(marks, NextMark(response_counter))
            /\ echoQ' = Append(echoQ, NextMark(response_counter))
            /\ pc' = "playback"
            /\ UNCHANGED <<chan, pending_tts_stream>>

\* The turn's generation is over: the counter is incremented and the mark
\* sent.  The locals of the pipeline are dead from here on.
SendResponseMark ==
    /\ response_counter' = NextMark(response_counter)
    /\ IF chan = "closed"
       THEN /\ ControllerRaise
            /\ UNCHANGED chanVars
       ELSE /\ sent' = Append(sent, Mark(NextMark(response_counter)))
            /\ marks' = Append(marks, NextMark(response_counter))
            /\ echoQ' = Append(echoQ, NextMark(response_counter))
            /\ pc' = "playback"
            /\ UNCHANGED <<chan, pending_tts_stream>>

\* asyncio.wait returns.  The onset wins only when the response task is not
\* done: clear is sent (an await) before the task is cancelled.  Otherwise
\* the turn completes: the session is closed and the mark sent.
RaceWake ==
    /\ pc = "race"
    /\ rt \in {"done", "failed"} \/ speech_detected
    /\ IF speech_detected /\ rt \notin {"done", "failed"}
       THEN /\ IF chan = "closed"
               THEN /\ ControllerRaise
                    /\ UNCHANGED chanVars
               ELSE /\ sent' = Append(sent, Clear)
                    /\ pc' = "int_clear"
                    /\ UNCHANGED <<chan, marks, echoQ, pending_tts_stream>>
            /\ UNCHANGED <<response_counter, tts_stream, extra_parts,
                           audio_started, taskVars, ttsVars>>
       ELSE /\ tts_stream' = "none"
            /\ FreshSession
            /\ extra_parts' = <<>> /\ audio_started' = FALSE
            /\ ag' = "none" /\ nText' = 0 /\ response_text' = FALSE
            /\ text_buffer' = <<>> /\ aborted' = FALSE /\ audio_task' = "none"
            /\ attempt' = "none"
            /\ UNCHANGED <<rt, agent_error>>
            /\ SendResponseMark
    /\ UNCHANGED <<recvVars, vhVars, transcript, history_checkpoint, rest_left,
                   ghostVars, is_agent_speaking, conversation_history, ended,
                   flushVars, guardVars, sideVars>>

\* The controller goes back to wait for a transcript: the turn's session
\* is closed, and the locals of the turn are dead.
TurnEnds(how) ==
    /\ pc' = "idle"
    /\ outcome' = how
    /\ sent' = <<>>
    /\ transcript' = <<>>
    /\ tts_stream' = "none"
    /\ extra_parts' = <<>> /\ audio_started' = FALSE
    /\ NoTask /\ FreshSession

\* An interrupt handling that leaves the history as the turn left it.
RollbackKeepsHistory ==
    /\ UNCHANGED conversation_history
    /\ rolled_back' = 0
    /\ is_agent_speaking' = FALSE
    /\ TurnEnds("interrupted")
    /\ UNCHANGED prewarmed

\* The end of an interrupted turn: the history is cut back to the
\* checkpoint and the flag reset.
Rollback ==
    /\ conversation_history' = Truncate(conversation_history, history_checkpoint)
    /\ rolled_back' = Len(conversation_history)
                      - Len(Truncate(conversation_history, history_checkpoint))
    /\ is_agent_speaking' = FALSE
    /\ TurnEnds("interrupted")
    /\ UNCHANGED prewarmed

\* An interrupt that abandons the response task instead of cancelling and
\* awaiting it: the history is cut back and the controller goes on at once.
CancelTaskAbandons ==
    /\ pc = "int_clear"
    /\ speech_detected' = FALSE
    /\ conversation_history' = Truncate(conversation_history, history_checkpoint)
    /\ rolled_back' = Len(conversation_history)
                      - Len(Truncate(conversation_history, history_checkpoint))
    /\ is_agent_speaking' = FALSE
    /\ pc' = "idle" /\ outcome' = "interrupted"
    /\ UNCHANGED <<chanVars, recvVars, transcript_queue, dg, nFinals,
                   transcript, history_checkpoint, response_counter,
                   pending_tts_stream, tts_stream, extra_parts, audio_started,
                   rest_left, taskVars, ttsVars, history_pre, prewarmed, stop_pc, tool_runs,
                   ended,
                   flushVars, guardVars, sideVars>>

\* After the clear: the onset is cleared and the task cancelled.  A task
\* that is done by now is awaited without suspending.  A cancelled task
\* takes no further step of its own; its audio task, unless the response
\* task was waiting for it, is cancelled only when the response task handles
\* the cancellation, and runs before that if a chunk had made it ready.
CancelTask ==
    /\ pc = "int_clear"
    /\ speech_detected' = FALSE
    /\ IF rt \in {"done", "failed"}
       THEN Rollback
       ELSE /\ rt' = "cancelling"
            /\ pc' = "await_cancel"
            /\ ag' = "none" /\ nText' = 0 /\ response_text' = FALSE
            /\ text_buffer' = <<>> /\ aborted' = FALSE /\ agent_error' = FALSE
            /\ attempt' = "none"
            /\ tts_fed' = FALSE /\ tts_eos' = FALSE /\ tts_made' = 0
            /\ IF ag # "drain" /\ audio_task \in {"guarded", "plain"}
               THEN UNCHANGED <<audio_task, audio_queue>>
               ELSE audio_task' = "none" /\ audio_queue' = <<>>
            /\ UNCHANGED <<sent, transcript, tts_stream, extra_parts,
                           audio_started, outcome, rolled_back, prewarmed,
                           is_agent_speaking, conversation_history>>
    /\ UNCHANGED <<chan, marks, echoQ, recvVars, transcript_queue, dg, nFinals,
                   history_checkpoint, response_counter, pending_tts_stream,
                   rest_left, history_pre, stop_pc, tool_runs, ended,
                   flushVars, guardVars, sideVars>>

\* An interrupt path that goes on to number and send the turn's mark.
AfterCancelSendsMark ==
    /\ pc = "await_cancel" /\ rt = "cancelling"
    /\ Rollback
    /\ response_counter' = NextMark(response_counter)
    /\ marks' = Append(marks, NextMark(response_counter))
    /\ echoQ' = Append(echoQ, NextMark(response_counter))
    /\ UNCHANGED <<chan, recvVars, vhVars, history_checkpoint,
                   pending_tts_stream, rest_left, history_pre, stop_pc, tool_runs, ended,
                   flushVars, guardVars, sideVars>>

\* The response task handles the cancellation (it cancels and awaits its
\* audio task) and ends; the controller's await returns and the turn is
\* rolled back.
AfterCancel ==
    /\ pc = "await_cancel" /\ rt = "cancelling"
    /\ Rollback
    /\ UNCHANGED <<chan, marks, echoQ, recvVars, vhVars, history_checkpoint,
                   response_counter, pending_tts_stream, rest_left,
                   history_pre, stop_pc, tool_runs, ended,
                   flushVars, guardVars, sideVars>>

\* The playback is over for the controller: the flag is reset and the next
\* session pre-warmed.
PlaybackEnds(how) ==
    /\ is_agent_speaking' = FALSE
    /\ PrewarmSession
    /\ TurnEnds(how)
    /\ UNCHANGED rolled_back

\* The loop that waits for the playback to end: it leaves when the flag is
\* clear, and on an onset it clears the onset and sends clear (an await).
\* A timeout of wait_for changes nothing.
PlaybackPoll ==
    /\ pc = "playback"
    /\ IF ~is_agent_speaking
       THEN /\ PlaybackEnds(IF rt = "failed" THEN "failed"
                            ELSE IF speech_detected THEN "onset"
                            ELSE "played")
            /\ UNCHANGED speech_detected
       ELSE /\ speech_detected
            /\ speech_detected' = FALSE
            /\ IF chan = "closed"
               THEN /\ ControllerRaise
                    /\ UNCHANGED sent
               ELSE /\ sent' = Append(sent, Clear)
                    /\ pc' = "pb_cleared"
                    /\ UNCHANGED pending_tts_stream
            /\ UNCHANGED <<transcript, tts_stream, extra_parts, audio_started,
                           taskVars, ttsVars, outcome, rolled_back, prewarmed,
                           is_agent_speaking>>
    /\ UNCHANGED <<chan, marks, echoQ, recvVars, transcript_queue, dg, nFinals,
                   history_checkpoint, response_counter, rest_left,
                   history_pre, stop_pc, tool_runs, conversation_history, ended,
                   flushVars, guardVars, sideVars>>

\* After the clear of the playback loop: the flag is reset and the loop left.
PlaybackCleared ==
    /\ pc = "pb_cleared"
    /\ PlaybackEnds("barged")
    /\ UNCHANGED <<chan, marks, echoQ, recvVars, vhVars, history_checkpoint,
                   response_counter, rest_left, history_pre, stop_pc, tool_runs,
                   conversation_history, ended,
                   flushVars, guardVars, sideVars>>

-----------------------------------------------------------------------------
(* AIAgent.process_message, as its consumers drive it *)

\* The text increments the agent yields: one with a comma, one that ends a
\* sentence, a short and a long one without punctuation.
TextIncrements ==
    { [text |-> "Sure, ",          len |-> 6,  punct |-> TRUE,  boundary |-> FALSE],
      [text |-> "I can help. ",    len |-> 12, punct |-> TRUE,  boundary |-> TRUE],
      [text |-> "What",            len |-> 4,  punct |-> FALSE, boundary |-> FALSE],
      [text |-> "congratulations", len |-> 15, punct |-> FALSE, boundary |-> FALSE] }

RECURSIVE TextLen(_)
TextLen(buf) == IF buf = <<>> THEN 0 ELSE Head(buf).len + TextLen(Tail(buf))

\* any(p in text_buffer for p in '.,!?;:\n')
HasPunct(buf) == \E i \in DOMAIN buf : buf[i].punct

\* _find_sentence_boundary(sentence_buffer) != -1
HasBoundary(buf) == \E i \in DOMAIN buf : buf[i].boundary

\* The flush condition of the streaming loop:
\* has_punct or len(text_buffer) >= 15
ShouldFlush(buf) == HasPunct(buf) \/ TextLen(buf) >= MinFlushChars

\* A variant of the first step that contacts the agent without the append.
GenStartNoAppend ==
    /\ conversation_history' = conversation_history
    /\ ag' = "s1"

\* The generator's first step: the user message is appended before the
\* agent is contacted.
GenStart ==
    /\ conversation_history' = Append(conversation_history, UserMsg(transcript))
    /\ ag' = "s1"

\* The stream ends with no tool call (or the follow-up stream ends): the
\* reply is appended when the stream yielded text.  After the error event
\* the generator ends without an append.
GenEnd ==
    conversation_history' =
        IF response_text /\ ag # "err"
        THEN Append(conversation_history, AssistantMsg(transcript))
        ELSE conversation_history

\* After the tool_call event: the tool results are appended and the
\* follow-up stream is opened.
GenToolResult(h) ==
    /\ conversation_history' = Append(h, ToolResultMsg(transcript))
    /\ ag' = "s2" /\ nText' = 0 /\ response_text' = FALSE

-----------------------------------------------------------------------------
(* The response task: do_full_response and _process_with_input_streaming *)

\* send_text and flush raise ConnectionClosedError on a session whose
\* connection closed with an error; the loop sends nothing once the audio
\* side aborted.
SendWouldRaise == tts_stream = "broken" /\ ~aborted

\* The faults of the turn so far: the agent's error event, a session whose
\* connection closed, a second attempt that answers such a close.
Faults ==
    (IF agent_error THEN 1 ELSE 0)
    + (IF tts_stream = "broken" \/ (attempt = "second" /\ extra_parts = <<>>)
       THEN 1 ELSE 0)

NoFaultYet == Faults < MaxFaults

\* The task's first step: forward_audio is created and the generator runs
\* up to the request to the agent.
AgentStart ==
    /\ rt = "run" /\ ag = "init"
    /\ GenStart
    /\ UNCHANGED <<chanVars, recvVars, vhVars, ctlVars, rt, nText,
                   response_text, text_buffer, aborted, agent_error, attempt, audio_task, ttsVars,
                   ghostVars, is_agent_speaking, ended,
                   flushVars, guardVars, sideVars>>

\* A text increment: the loop leaves when the audio side aborted; otherwise
\* the buffer is submitted once it holds punctuation or enough characters.
AgentText ==
    /\ rt = "run" /\ ag \in {"s1", "s2"} /\ nText < MaxText
    /\ \E inc \in TextIncrements :
        /\ ~(SendWouldRaise /\ ShouldFlush(Append(text_buffer, inc)))
        /\ nText' = nText + 1
        /\ response_text' = TRUE
        /\ IF aborted
           THEN /\ ag' = "drain"
                /\ UNCHANGED <<text_buffer, tts_fed>>
           ELSE LET buf == Append(text_buffer, inc) IN
                /\ ag' = ag
                /\ IF ShouldFlush(buf)
                   THEN /\ tts_fed' = TRUE
                        /\ text_buffer' = <<>>
                   ELSE /\ text_buffer' = buf
                        /\ UNCHANGED tts_fed
    /\ UNCHANGED <<chanVars, recvVars, vhVars, ctlVars, rt, aborted, agent_error, attempt,
                   audio_task, audio_queue, tts_eos, tts_made, ghostVars,
                   is_agent_speaking, conversation_history, ended,
                   flushVars, guardVars, sideVars>>

\* The agent's stream ends: the reply is appended; unless aborted the rest
\* of the buffer is submitted and end-of-input signalled.  The task then
\* waits for the audio task.
AgentEnd ==
    /\ rt = "run" /\ ag \in {"s1", "s2", "err"}
    /\ ~SendWouldRaise
    /\ GenEnd
    /\ ag' = "drain"
    /\ text_buffer' = IF aborted THEN text_buffer ELSE <<>>
    /\ tts_fed' = (tts_fed \/ (~aborted /\ text_buffer # <<>>))
    /\ tts_eos' = (tts_eos \/ ~aborted)
    /\ UNCHANGED <<chanVars, recvVars, vhVars, ctlVars, rt, nText,
                   response_text, aborted, agent_error, attempt, audio_task, audio_queue, tts_made,
                   ghostVars, is_agent_speaking, ended,
                   flushVars, guardVars, sideVars>>

\* An error event whose apology is not submitted to the synthesis session.
AgentFailSilent ==
    /\ NoFaultYet
    /\ rt = "run" /\ ag \in {"s1", "s2"}
    /\ ~SendWouldRaise
    /\ agent_error' = TRUE
    /\ ag' = IF aborted THEN "drain" ELSE "err"
    /\ UNCHANGED <<chanVars, recvVars, vhVars, ctlVars, rt, nText,
                   response_text, text_buffer, aborted, attempt, audio_task,
                   ttsVars, ghostVars, is_agent_speaking,
                   conversation_history, ended,
                   flushVars, guardVars, sideVars>>

\* A request to the agent fails: the generator catches the exception and
\* yields the error event with the apology.  The consumer leaves the loop
\* when the audio side aborted; otherwise it submits the apology (an await).
AgentFail ==
    /\ NoFaultYet
    /\ rt = "run" /\ ag \in {"s1", "s2"}
    /\ ~SendWouldRaise
    /\ agent_error' = TRUE
    /\ IF aborted
       THEN /\ ag' = "drain"
            /\ UNCHANGED tts_fed
       ELSE /\ ag' = "err"
            /\ tts_fed' = TRUE
    /\ UNCHANGED <<chanVars, recvVars, vhVars, ctlVars, rt, nText,
                   response_text, text_buffer, aborted, attempt, audio_task,
                   audio_queue, tts_eos, tts_made, ghostVars,
                   is_agent_speaking, conversation_history, ended,
                   flushVars, guardVars, sideVars>>

\* The first stream ends with a tool call: the tool-use entry is appended,
\* the tool executed and the tool_call event yielded.  The consumer leaves
\* the loop when the audio side aborted; it submits buffered text (an await)
\* before the generator goes on; with nothing buffered the generator goes on
\* at once.
AgentTool ==
    /\ rt = "run" /\ ag = "s1"
    /\ ~(SendWouldRaise /\ text_buffer # <<>>)
    /\ LET h == Append(conversation_history, ToolUseMsg(transcript)) IN
       IF aborted
       THEN /\ conversation_history' = h
            /\ ag' = "drain"
            /\ UNCHANGED <<nText, response_text, text_buffer, tts_fed>>
       ELSE IF text_buffer # <<>>
       THEN /\ conversation_history' = h
            /\ ag' = "tool_yield"
            /\ tts_fed' = TRUE
            /\ text_buffer' = <<>>
            /\ UNCHANGED <<nText, response_text>>
       ELSE /\ GenToolResult(h)
            /\ UNCHANGED <<text_buffer, tts_fed>>
    /\ tool_runs' = tool_runs + 1
    /\ UNCHANGED <<chanVars, recvVars, vhVars, ctlVars, rt, aborted, agent_error, attempt,
                   audio_task, audio_queue, tts_eos, tts_made, history_pre,
                   outcome, rolled_back, prewarmed, stop_pc,
                   is_agent_speaking, ended,
                   flushVars, guardVars, sideVars>>

\* The submission of the buffered text returns: the generator goes on.
AgentToolResume ==
    /\ rt = "run" /\ ag = "tool_yield"
    /\ GenToolResult(conversation_history)
    /\ UNCHANGED <<chanVars, recvVars, vhVars, ctlVars, rt, text_buffer,
                   aborted, agent_error, attempt, audio_task, ttsVars, ghostVars, is_agent_speaking,
                   ended,
                   flushVars, guardVars, sideVars>>

\* ElevenLabsInputStreamer._receive_audio: the session returns a chunk for
\* the text it was given.  Chunks that arrive once the response task is
\* cancelled are never taken from the queue.
TtsAudio ==
    /\ rt = "run" /\ tts_stream = "open" /\ tts_fed /\ tts_made < MaxChunks
    /\ \A i \in DOMAIN audio_queue : audio_queue[i] # EndOfAudio
    /\ audio_queue' = Append(audio_queue, tts_made + 1)
    /\ tts_made' = tts_made + 1
    /\ UNCHANGED <<chanVars, recvVars, vhVars, ctlVars, taskVars, tts_fed,
                   tts_eos, ghostVars, is_agent_speaking, conversation_history,
                   ended,
                   flushVars, guardVars, sideVars>>

\* After end-of-input the session sends isFinal: the sentinel is queued.
TtsFinal ==
    /\ rt = "run" /\ tts_stream = "open" /\ tts_eos
    /\ \A i \in DOMAIN audio_queue : audio_queue[i] # EndOfAudio
    /\ audio_queue' = Append(audio_queue, EndOfAudio)
    /\ UNCHANGED <<chanVars, recvVars, vhVars, ctlVars, taskVars, tts_fed,
                   tts_eos, tts_made, ghostVars, is_agent_speaking,
                   conversation_history, ended,
                   flushVars, guardVars, sideVars>>

\* The connection of the turn's session closes with an error while audio
\* is still expected: _receive_audio catches the exception and queues the
\* sentinel.
TtsBreaks ==
    /\ NoFaultYet
    /\ rt = "run" /\ tts_stream = "open"
    /\ tts_made <= MaxChunksBeforeBreak
    /\ audio_task \in {"guarded", "plain"}
    /\ \A i \in DOMAIN audio_queue : audio_queue[i] # EndOfAudio
    /\ tts_stream' = "broken"
    /\ audio_queue' = Append(audio_queue, EndOfAudio)
    /\ UNCHANGED <<chanVars, recvVars, vhVars, pc, transcript,
                   history_checkpoint, response_counter, pending_tts_stream,
                   extra_parts, audio_started, rest_left, taskVars, tts_fed,
                   tts_eos, tts_made, ghostVars, is_agent_speaking,
                   conversation_history, ended, flushVars, guardVars, sideVars>>

\* The history when the loop reaches a send on the closed connection: at a
\* text chunk that fills the buffer, at the tool_call event with text
\* buffered, at the error event, or after the stream's end.
HistoryAtSend ==
    { h \in { conversation_history,
              Append(conversation_history, ToolUseMsg(transcript)),
              Append(conversation_history, AssistantMsg(transcript)) } :
        \/ /\ h = conversation_history
           /\ \/ ag \in {"s1", "s2"}
              \/ ag = "err"
        \/ /\ h = Append(conversation_history, ToolUseMsg(transcript))
           /\ ag = "s1" /\ text_buffer # <<>>
        \/ /\ h = Append(conversation_history, AssistantMsg(transcript))
           /\ ag \in {"s1", "s2"} /\ response_text }

\* A send on the closed connection raises: the audio task is cancelled and
\* the exception leaves _process_with_input_streaming.  In the first
\* attempt do_full_response cuts the history back, closes the session and
\* connects a fresh one (an await); in a second attempt the exception ends
\* the task.
TtsSendRaises ==
    /\ rt = "run" /\ ag \in {"s1", "s2", "err"}
    /\ SendWouldRaise
    /\ \E h \in HistoryAtSend :
        /\ tool_runs' =
               IF h = Append(conversation_history, ToolUseMsg(transcript))
               THEN tool_runs + 1 ELSE tool_runs
        /\ IF attempt = "first"
           THEN /\ conversation_history' = Truncate(h, history_checkpoint)
                /\ tts_stream' = "none"
                /\ FreshSession
                /\ rt' = "restart" /\ attempt' = "second"
           ELSE /\ conversation_history' = h
                /\ rt' = "failed" /\ attempt' = "none"
                /\ UNCHANGED <<tts_stream, ttsVars>>
    /\ ag' = "none" /\ nText' = 0 /\ response_text' = FALSE
    /\ text_buffer' = <<>> /\ aborted' = FALSE /\ audio_task' = "none"
    /\ agent_error' = FALSE
    /\ UNCHANGED <<chanVars, recvVars, vhVars, pc, transcript,
                   history_checkpoint, response_counter, pending_tts_stream,
                   extra_parts, audio_started, rest_left, history_pre,
                   outcome, rolled_back, prewarmed, stop_pc,
                   is_agent_speaking, ended, flushVars, guardVars, sideVars>>

\* A guarded send that looks at the queue before every chunk.
SendAudioGuardedAlways(started, queue, parts) ==
    LET p == parts \o queue
    IN  [parts   |-> p,
         queue   |-> <<>>,
         raised  |-> p # <<>>,
         started |-> started \/ p = <<>>]

\* send_audio_guarded up to its send, from the flag, the transcript queue
\* and extra_parts: before the first chunk the queue is emptied into
\* extra_parts, and _TranscriptExtended raised if extra_parts holds
\* something; otherwise the flag is set.
SendAudioGuarded(started, queue, parts) ==
    LET p == IF started THEN parts ELSE parts \o queue
    IN  [parts   |-> p,
         queue   |-> IF started THEN queue ELSE <<>>,
         raised  |-> ~started /\ p # <<>>,
         started |-> started \/ p = <<>>]

\* send_audio_to_twilio used as the send function: no look at the queue.
SendAudioPlain(started, queue, parts) ==
    [parts |-> parts, queue |-> queue, raised |-> FALSE, started |-> started]

\* forward_audio takes a chunk.  Under the guarded send, before the first
\* chunk of the turn, the transcript queue is emptied into extra_parts and
\* _TranscriptExtended raised when it held something.  A send on a closed
\* channel raises.
ForwardAudio ==
    /\ rt \in {"run", "cancelling"}
    /\ audio_task \in {"guarded", "plain"}
    /\ audio_queue # <<>>
    /\ audio_queue' = Tail(audio_queue)
    /\ LET chunk == Head(audio_queue)
           g == IF audio_task = "guarded"
                THEN SendAudioGuarded(audio_started, transcript_queue,
                                      extra_parts)
                ELSE SendAudioPlain(audio_started, transcript_queue,
                                    extra_parts)
       IN
       IF chunk = EndOfAudio
       THEN /\ audio_task' = "done"
            /\ UNCHANGED <<sent, transcript_queue, extra_parts, audio_started,
                           aborted>>
       ELSE /\ extra_parts' = g.parts
            /\ transcript_queue' = g.queue
            /\ audio_started' = g.started
            /\ IF g.raised
               THEN /\ aborted' = TRUE
                    /\ audio_task' = "extended"
                    /\ UNCHANGED sent
               ELSE /\ UNCHANGED aborted
                    /\ IF chan = "closed"
                       THEN /\ audio_task' = "failed"
                            /\ UNCHANGED sent
                       ELSE /\ sent' = Append(sent, Media(transcript, chunk))
                            /\ UNCHANGED audio_task
    /\ UNCHANGED <<chan, marks, echoQ, recvVars, speech_detected, dg, nFinals,
                   pc, transcript, history_checkpoint, response_counter,
                   pending_tts_stream, tts_stream, rest_left, rt, ag, nText,
                   response_text, text_buffer, agent_error, attempt, tts_fed, tts_eos,
                   tts_made,
                   ghostVars, is_agent_speaking, conversation_history, ended,
                   flushVars, guardVars, sideVars>>

\* await audio_task returns or raises.  _TranscriptExtended reaches
\* do_full_response: the history is cut back, the fragments are joined to
\* the utterance and the session closed; a fresh one is connected (await).
TaskFinish ==
    /\ rt = "run" /\ ag = "drain"
    /\ audio_task \in {"done", "extended", "failed"}
    /\ IF audio_task = "extended"
       THEN /\ conversation_history' =
                   Truncate(conversation_history, history_checkpoint)
            /\ transcript' = transcript \o Join(extra_parts)
            /\ tts_stream' = "none"
            /\ FreshSession
            /\ rt' = "restart"
            /\ ag' = "none" /\ nText' = 0 /\ response_text' = FALSE
            /\ text_buffer' = <<>> /\ aborted' = FALSE /\ audio_task' = "none"
            /\ agent_error' = FALSE /\ attempt' = "second"
       ELSE /\ attempt' = "none"
            /\ rt' = IF audio_task = "done" THEN "done" ELSE "failed"
            /\ ag' = "none" /\ nText' = 0 /\ response_text' = FALSE
            /\ text_buffer' = <<>> /\ aborted' = FALSE /\ audio_task' = "none"
            /\ UNCHANGED <<conversation_history, transcript, tts_stream,
                           ttsVars, agent_error>>
    /\ UNCHANGED <<chanVars, recvVars, vhVars, pc, history_checkpoint,
                   response_counter, pending_tts_stream, extra_parts,
                   audio_started, rest_left, ghostVars, is_agent_speaking,
                   ended,
                   flushVars, guardVars, sideVars>>

\* The connect of the restart returns: the second attempt runs the merged
\* utterance with the unguarded send.  A failed connect ends the task.
Restart ==
    /\ rt = "restart"
    /\ \E ok \in BOOLEAN :
        IF ok
        THEN /\ tts_stream' = "open"
             /\ rt' = "run" /\ ag' = "init" /\ audio_task' = "plain"
             /\ UNCHANGED attempt
        ELSE /\ rt' = "failed" /\ attempt' = "none"
             /\ UNCHANGED <<tts_stream, ag, audio_task>>
    /\ UNCHANGED <<chanVars, recvVars, vhVars, pc, transcript,
                   history_checkpoint, response_counter, pending_tts_stream,
                   extra_parts, audio_started, rest_left, nText, response_text,
                   text_buffer, aborted, agent_error, ttsVars, ghostVars,
                   is_agent_speaking, conversation_history, ended,
                   flushVars, guardVars, sideVars>>

-----------------------------------------------------------------------------
(* The fallback: _process_with_sentence_buffering inside process_speech *)

\* synthesize_and_send(text): the flag is set and the synthesis requested;
\* the chunks it returns are sent one per await.
SynthesizeAndSend ==
    /\ is_agent_speaking' = TRUE
    /\ \E k \in 1..MaxChunks : rest_left' = k
    /\ pc' = "rest_send"

RestStart ==
    /\ pc = "rest" /\ ag = "init"
    /\ GenStart
    /\ UNCHANGED <<chanVars, recvVars, vhVars, ctlVars, rt, nText,
                   response_text, text_buffer, aborted, agent_error, attempt, audio_task, ttsVars,
                   ghostVars, is_agent_speaking, ended,
                   flushVars, guardVars, sideVars>>

\* A text increment: a buffer that holds a sentence boundary is synthesized.
RestText ==
    /\ pc = "rest" /\ ag \in {"s1", "s2"} /\ nText < MaxText
    /\ \E inc \in TextIncrements :
        /\ nText' = nText + 1
        /\ response_text' = TRUE
        /\ IF HasBoundary(Append(text_buffer, inc))
           THEN /\ text_buffer' = <<>>
                /\ SynthesizeAndSend
           ELSE /\ text_buffer' = Append(text_buffer, inc)
                /\ UNCHANGED <<rest_left, pc, is_agent_speaking>>
    /\ UNCHANGED <<chanVars, recvVars, vhVars, transcript, history_checkpoint,
                   response_counter, pending_tts_stream, tts_stream,
                   extra_parts, audio_started, rt, ag, aborted, agent_error, attempt, audio_task,
                   ttsVars, ghostVars, conversation_history, ended,
                   flushVars, guardVars, sideVars>>

\* The first stream ends with a tool call: the tool-use entry and the tool
\* results are appended and the follow-up stream is opened.
RestTool ==
    /\ pc = "rest" /\ ag = "s1"
    /\ GenToolResult(Append(conversation_history, ToolUseMsg(transcript)))
    /\ tool_runs' = tool_runs + 1
    /\ UNCHANGED <<chanVars, recvVars, vhVars, ctlVars, rt, text_buffer,
                   aborted, agent_error, attempt, audio_task, ttsVars,
                   history_pre, outcome, rolled_back, prewarmed, stop_pc,
                   is_agent_speaking, ended,
                   flushVars, guardVars, sideVars>>

\* The stream ends: the reply is appended and the rest of the buffer
\* synthesized.
RestEnd ==
    /\ pc = "rest" /\ ag \in {"s1", "s2"}
    /\ GenEnd
    /\ ag' = "drain"
    /\ text_buffer' = <<>>
    /\ IF text_buffer # <<>>
       THEN SynthesizeAndSend
       ELSE UNCHANGED <<rest_left, pc, is_agent_speaking>>
    /\ UNCHANGED <<chanVars, recvVars, vhVars, transcript, history_checkpoint,
                   response_counter, pending_tts_stream, tts_stream,
                   extra_parts, audio_started, rt, nText, response_text,
                   aborted, agent_error, attempt, audio_task, ttsVars, ghostVars, ended,
                   flushVars, guardVars, sideVars>>

\* A chunk of the synthesized sentence is sent; after the last one the
\* fallback goes on.  A send on a closed channel raises.
RestSend ==
    /\ pc = "rest_send"
    /\ IF rest_left = 0
       THEN /\ pc' = "rest"
            /\ UNCHANGED <<sent, rest_left, pending_tts_stream>>
       ELSE IF chan = "closed"
       THEN /\ ControllerRaise
            /\ UNCHANGED <<sent, rest_left>>
       ELSE /\ sent' = Append(sent, Media(transcript, MediaCount + 1))
            /\ rest_left' = rest_left - 1
            /\ UNCHANGED <<pc, pending_tts_stream>>
    /\ UNCHANGED <<chan, marks, echoQ, recvVars, vhVars, transcript,
                   history_checkpoint, response_counter, tts_stream,
                   extra_parts, audio_started, taskVars, ttsVars, ghostVars,
                   is_agent_speaking, conversation_history, ended,
                   flushVars, guardVars, sideVars>>

\* The fallback returns: the counter is incremented and the mark sent.
RestFinish ==
    /\ pc = "rest" /\ ag = "drain"
    /\ ag' = "none" /\ nText' = 0 /\ response_text' = FALSE
    /\ SendResponseMark
    /\ UNCHANGED <<recvVars, vhVars, transcript, history_checkpoint,
                   tts_stream, extra_parts, audio_started, rest_left, rt,
                   text_buffer, aborted, agent_error, attempt, audio_task, ttsVars, ghostVars,
                   is_agent_speaking, conversation_history, ended,
                   flushVars, guardVars, sideVars>>

-----------------------------------------------------------------------------
(* websocket_endpoint *)

\* gather returned (both tasks ended): the finally clause removes the call
\* from the registry and cleans up the voice handler.
Finally ==
    /\ rpc = "done" /\ pc = "done" /\ ~ended
    /\ active_calls' = active_calls \ {CallSid}
    /\ dg' = IF dg = "none" THEN "none" ELSE "finished"
    /\ ended' = TRUE
    /\ UNCHANGED <<chanVars, rpc, greetLeft, stream_sid, vad_frames,
                   speech_detected, transcript_queue, nFinals, ctlVars,
                   taskVars, ttsVars, ghostVars, is_agent_speaking,
                   conversation_history, flushVars, guardVars, sideVars>>

-----------------------------------------------------------------------------
Receive ==
    \/ RecvStart \/ RecvGreeting \/ RecvMedia \/ RecvVadOnset \/ RecvMark
    \/ RecvStop \/ RecvMalformed

Controller ==
    \/ Prewarm \/ Dequeue \/ StartAfterClear \/ Connect \/ RaceWake
    \/ CancelTask \/ AfterCancel \/ PlaybackPoll \/ PlaybackCleared
    \/ RestStart \/ RestText \/ RestTool \/ RestEnd \/ RestSend
    \/ RestFinish

ResponseTask ==
    \/ AgentStart \/ AgentText \/ AgentFail \/ AgentEnd \/ AgentTool
    \/ AgentToolResume \/ TtsSendRaises \/ TaskFinish \/ Restart

Environment ==
    \/ Disconnect \/ OnMessage \/ TtsAudio \/ TtsFinal \/ TtsBreaks

Next ==
    Receive \/ Controller \/ ResponseTask \/ ForwardAudio \/ Environment
    \/ Finally

Spec == Init /\ [][Next]_vars

\* The scheduling of asyncio: a task that is ready to run is run.  The
\* controller, the response task and its audio task are tasks of the loop;
\* the receive loop finishes the handler it is in.  The far end echoes the
\* marks it was sent and the synthesis session ends its output; what the
\* caller says, and when the call ends, is not constrained.
FairSpec ==
    /\ Spec
    /\ WF_vars(Controller)
    /\ WF_vars(ResponseTask)
    /\ WF_vars(ForwardAudio)
    /\ WF_vars(RecvGreeting \/ RecvVadOnset)
    /\ WF_vars(RecvMark)
    /\ WF_vars(TtsFinal)
    /\ WF_vars(Finally)

-----------------------------------------------------------------------------
(* The text buffering of _process_with_input_streaming, on its own *)

\* The characters the loop looks for: '.,!?;:\n'
Punct == {".", ",", "!", "?", ";", ":", "\n"}

\* A text increment of the agent's stream, with what the loop and
\* _find_sentence_boundary compute from its characters.
Inc(chars) ==
    [text     |-> chars,
     len      |-> Len(chars),
     punct    |-> \E i \in DOMAIN chars : chars[i] \in Punct,
     boundary |-> \E i \in DOMAIN chars :
                     /\ i < Len(chars)
                     /\ chars[i] \in {".", "!", "?"}
                     /\ chars[i + 1] \in {" ", "\n"}]

Sure     == <<"S", "u", "r", "e", ",", " ">>
ICanHelp == <<"I", " ", "c", "a", "n", " ", "h", "e", "l", "p", ".", " ">>
Whats    == <<"W", "h", "a", "t", "'", "s">>
Congratulations ==
    <<"c", "o", "n", "g", "r", "a", "t", "u", "l", "a", "t", "i", "o", "n", "s">>

FlushIncrements == {Inc(Sure), Inc(ICanHelp), Inc(Whats), Inc(Congratulations)}

\* The streams of at most MaxIncs increments.
FlushInputs == UNION { [1..n -> FlushIncrements] : n \in 0..MaxIncs }

\* The characters of a buffer of increments.
RECURSIVE BufText(_)
BufText(buf) ==
    IF buf = <<>> THEN <<>> ELSE Head(buf).text \o BufText(Tail(buf))

FlushInit ==
    /\ CallInit /\ GuardIdle /\ SideIdleExcept("none")
    /\ fl_in \in FlushInputs
    /\ fl_pos = 1 /\ fl_buf = <<>> /\ fl_out = <<>>

callVars == <<chanVars, recvVars, vhVars, ctlVars, taskVars, ttsVars,
              ghostVars, is_agent_speaking, conversation_history, ended>>

\* One text chunk of the stream: it joins the buffer, and the buffer is
\* submitted and emptied when it holds one of the characters or is long
\* enough.
FlushText ==
    /\ fl_pos <= Len(fl_in)
    /\ LET buf == Append(fl_buf, fl_in[fl_pos])
       IN  IF ShouldFlush(buf)
           THEN /\ fl_out' = Append(fl_out, BufText(buf))
                /\ fl_buf' = <<>>
           ELSE /\ fl_buf' = buf
                /\ UNCHANGED fl_out
    /\ fl_pos' = fl_pos + 1
    /\ UNCHANGED <<fl_in, callVars, guardVars, sideVars>>

\* The stream ends: what is left in the buffer is submitted.
FlushEnd ==
    /\ fl_pos = Len(fl_in) + 1
    /\ IF fl_buf # <<>>
       THEN /\ fl_out' = Append(fl_out, BufText(fl_buf))
            /\ fl_buf' = <<>>
       ELSE UNCHANGED <<fl_out, fl_buf>>
    /\ fl_pos' = fl_pos + 1
    /\ UNCHANGED <<fl_in, callVars, guardVars, sideVars>>

FlushNext == FlushText \/ FlushEnd

FlushSpec == FlushInit /\ [][FlushNext]_vars

-----------------------------------------------------------------------------
(* The audio path of one turn, on its own: forward_audio, the send functions
   and the handler of _TranscriptExtended in do_full_response *)

\* The turn starts on the first final; the recognizer queues further ones.
GuardInit ==
    /\ CallInit /\ FlushIdle /\ SideIdleExcept("none")
    /\ g_attempt = "first" /\ g_transcript = <<1>> /\ g_queue = <<>>
    /\ g_finals = 1 /\ g_parts = <<>> /\ g_started = FALSE /\ g_sent = 0
    /\ g_restarts = 0

\* VoiceHandler.on_message: a final fragment is queued.
GuardFinal ==
    /\ g_finals < MaxGuardFinals
    /\ g_finals' = g_finals + 1
    /\ g_queue' = Append(g_queue, <<g_finals + 1>>)
    /\ UNCHANGED <<g_attempt, g_transcript, g_parts, g_started, g_sent,
                   g_restarts, callVars, flushVars, sideVars>>

\* forward_audio takes a chunk and calls the send function of the attempt.
\* _TranscriptExtended ends the first attempt: the fragments are joined to
\* the utterance and do_full_response goes to connect a fresh session.
GuardChunk ==
    /\ g_attempt \in {"first", "second"}
    /\ g_sent < MaxGuardChunks
    /\ LET g == IF g_attempt = "first"
                THEN SendAudioGuarded(g_started, g_queue, g_parts)
                ELSE SendAudioPlain(g_started, g_queue, g_parts)
       IN  /\ g_parts' = g.parts
           /\ g_queue' = g.queue
           /\ g_started' = g.started
           /\ IF g.raised
              THEN /\ g_attempt' = "restart"
                   /\ g_transcript' = g_transcript \o Join(g.parts)
                   /\ UNCHANGED g_sent
              ELSE /\ g_sent' = g_sent + 1
                   /\ UNCHANGED <<g_attempt, g_transcript>>
    /\ UNCHANGED <<g_finals, g_restarts, callVars, flushVars, sideVars>>

\* The connect returns: the second attempt runs with send_audio_to_twilio.
GuardRestart ==
    /\ g_attempt = "restart"
    /\ g_attempt' = "second"
    /\ g_restarts' = g_restarts + 1
    /\ g_sent' = 0
    /\ UNCHANGED <<g_transcript, g_queue, g_finals, g_parts, g_started,
                   callVars, flushVars, sideVars>>

\* The session's audio ends: the attempt, and with it the task, is done.
GuardEnd ==
    /\ g_attempt \in {"first", "second"}
    /\ g_attempt' = "done"
    /\ UNCHANGED <<g_transcript, g_queue, g_finals, g_parts, g_started,
                   g_sent, g_restarts, callVars, flushVars, sideVars>>

GuardNext == GuardFinal \/ GuardChunk \/ GuardRestart \/ GuardEnd

GuardSpec == GuardInit /\ [][GuardNext]_vars

-----------------------------------------------------------------------------
(* The VAD of receive_audio on its own: the media branch, with the flag set
   and cleared by the rest of the endpoint at any point between two frames
   and while clear is being sent *)

MaxVadLog == 5

notVad == <<callVars, flushVars, guardVars, sessVars, fwdVars, regVars, boundVars,
              vhSideVars, bookVars,
             toolVars,
             pipeVars,
             retryVars,
             fileVars>>

VadInit ==
    /\ CallInit /\ FlushIdle /\ GuardIdle /\ SideIdleExcept("vad")
    /\ v_speaking \in BOOLEAN /\ v_frames = 0 /\ v_pc = "recv"
    /\ v_detected = FALSE /\ v_log = <<>>

\* A variant of the VAD's comparison that also counts a frame at the threshold.
VadAboveOrAt(rms) == rms >= VadThreshold

\* _audio_rms(audio_data) > _VAD_THRESHOLD
VadAbove(rms) == rms > VadThreshold

VadEntry(rms, onset) == [rms |-> rms, speaking |-> v_speaking, onset |-> onset]

\* media: the frame is counted, or the counter is reset; on the required
\* count clear is sent, which is an await.
VadMedia ==
    /\ v_pc = "recv" /\ Len(v_log) < MaxVadLog
    /\ \E rms \in FrameRms :
        IF v_speaking
        THEN IF VadAbove(rms)
             THEN /\ v_frames' = v_frames + 1
                  /\ IF v_frames + 1 >= VadFramesRequired
                     THEN /\ v_pc' = "clearing"
                          /\ v_log' = Append(v_log, VadEntry(rms, TRUE))
                     ELSE /\ v_pc' = "recv"
                          /\ v_log' = Append(v_log, VadEntry(rms, FALSE))
             ELSE /\ v_frames' = 0
                  /\ v_log' = Append(v_log, VadEntry(rms, FALSE))
                  /\ UNCHANGED v_pc
        ELSE /\ v_frames' = 0
             /\ v_log' = Append(v_log, VadEntry(rms, FALSE))
             /\ UNCHANGED v_pc
    /\ UNCHANGED <<v_speaking, v_detected, notVad>>

\* After clear was sent: the onset is raised, the flag is cleared and the
\* counter is reset.
VadOnset ==
    /\ v_pc = "clearing"
    /\ v_detected' = TRUE
    /\ v_speaking' = FALSE
    /\ v_frames' = 0
    /\ v_pc' = "recv"
    /\ UNCHANGED <<v_log, notVad>>

\* process_speech starts a turn: the onset is cleared and the flag is set.
VadTurnBegins ==
    /\ ~v_speaking
    /\ v_detected' = FALSE
    /\ v_speaking' = TRUE
    /\ UNCHANGED <<v_frames, v_pc, v_log, notVad>>

\* The flag is cleared outside the media branch: by the mark branch between
\* two frames, by process_speech at any point.
VadFlagCleared ==
    /\ v_speaking
    /\ v_speaking' = FALSE
    /\ UNCHANGED <<v_frames, v_pc, v_detected, v_log, notVad>>

VadNext == VadMedia \/ VadOnset \/ VadTurnBegins \/ VadFlagCleared

VadSpec == VadInit /\ [][VadNext]_vars

-----------------------------------------------------------------------------
(* The synthesis sessions of process_speech on their own: every object that
   create_tts_stream returns has an identity, its connection state and the
   attempts that sent text to it *)

MaxSessTurns == 2

notSess == <<callVars, flushVars, guardVars, vadVars, fwdVars, regVars, boundVars,
              vhSideVars, bookVars,
             toolVars,
             pipeVars,
             retryVars,
             fileVars>>

SessInit ==
    /\ CallInit /\ FlushIdle /\ GuardIdle /\ SideIdleExcept("sess")
    /\ s_pc = "prewarm" /\ s_pending = 0 /\ s_stream = 0
    /\ s_state = <<>> /\ s_fed = <<>> /\ s_att = 0 /\ s_turns = 0

\* VoiceHandler.create_tts_stream() followed by connect(): a new object,
\* connected ("open") or not ("failed").
SessCreated(states, ok) == Append(states, IF ok THEN "open" ELSE "failed")

\* ElevenLabsInputStreamer.close() on session id (0: no session).
SessClosed(states, id) ==
    IF id = 0 THEN states ELSE [states EXCEPT ![id] = "closed"]

\* The pre-warm before the loop.
SessPrewarm ==
    /\ s_pc = "prewarm"
    /\ \E ok \in BOOLEAN :
          /\ s_state' = SessCreated(s_state, ok)
          /\ s_pending' = IF ok THEN Len(s_state) + 1 ELSE 0
    /\ s_fed' = Append(s_fed, {})
    /\ s_pc' = "idle"
    /\ UNCHANGED <<s_stream, s_att, s_turns, notSess>>

\* The far end drops the connection of a session that is open.
SessDrops ==
    /\ \E id \in DOMAIN s_state :
          /\ id \in {s_pending, s_stream}
          /\ s_state[id] = "open"
          /\ s_state' = [s_state EXCEPT ![id] = "dropped"]
    /\ UNCHANGED <<s_pc, s_pending, s_stream, s_fed, s_att, s_turns, notSess>>

\* A turn starts: the pre-warmed session is promoted when its connection is
\* open; otherwise it is closed and a session is connected inline, and a
\* failed connect sends the turn to the REST fallback.
SessTurnStarts ==
    /\ s_pc = "idle" /\ s_turns < MaxSessTurns
    /\ s_turns' = s_turns + 1
    /\ s_att' = s_att + 1
    /\ s_pending' = 0
    /\ IF s_pending # 0 /\ s_state[s_pending] = "open"
       THEN /\ s_stream' = s_pending
            /\ s_pc' = "first"
            /\ UNCHANGED <<s_state, s_fed>>
       ELSE \E ok \in BOOLEAN :
            /\ s_state' = SessCreated(SessClosed(s_state, s_pending), ok)
            /\ s_fed' = Append(s_fed, {})
            /\ s_stream' = Len(s_state) + 1
            /\ s_pc' = IF ok THEN "first" ELSE "rest"
    /\ UNCHANGED notSess

\* _process_with_input_streaming sends text to the session of the attempt.
SessText ==
    /\ s_pc \in {"first", "second"}
    /\ s_state[s_stream] = "open"
    /\ s_fed' = [s_fed EXCEPT ![s_stream] = @ \cup {s_att}]
    /\ UNCHANGED <<s_pc, s_pending, s_stream, s_state, s_att, s_turns, notSess>>

\* A variant of the handlers that runs the second attempt on the session of
\* the first.
SessRestartReuses ==
    /\ s_pc = "first"
    /\ s_pc' = "second"
    /\ s_att' = s_att + 1
    /\ UNCHANGED <<s_state, s_fed, s_stream, s_pending, s_turns, notSess>>

\* The handlers of do_full_response: the session is closed and a fresh one is
\* connected for the second attempt; a failed connect ends the task.
SessRestart ==
    /\ s_pc = "first"
    /\ \E ok \in BOOLEAN :
          /\ s_state' = SessCreated(SessClosed(s_state, s_stream), ok)
          /\ s_pc' = IF ok THEN "second" ELSE "failed"
    /\ s_fed' = Append(s_fed, {})
    /\ s_stream' = Len(s_state) + 1
    /\ s_att' = s_att + 1
    /\ UNCHANGED <<s_pending, s_turns, notSess>>

\* An exception that no handler of do_full_response takes ends the task.
SessTaskFails ==
    /\ s_pc \in {"first", "second"}
    /\ s_pc' = "failed"
    /\ UNCHANGED <<s_pending, s_stream, s_state, s_fed, s_att, s_turns, notSess>>

\* The interrupted branch: the session is closed and the loop continues.
SessInterrupted ==
    /\ s_pc \in {"first", "second"}
    /\ s_state' = SessClosed(s_state, s_stream)
    /\ s_stream' = 0
    /\ s_pc' = "idle"
    /\ UNCHANGED <<s_pending, s_fed, s_att, s_turns, notSess>>

\* The turn is over: its session is closed (the REST fallback has none to
\* close) and the next session is pre-warmed.
SessCompletes ==
    /\ s_pc \in {"first", "second", "failed", "rest"}
    /\ \E ok \in BOOLEAN :
          /\ s_state' = SessCreated(IF s_pc = "rest" THEN s_state
                                    ELSE SessClosed(s_state, s_stream), ok)
          /\ s_pending' = IF ok THEN Len(s_state) + 1 ELSE 0
    /\ s_fed' = Append(s_fed, {})
    /\ s_stream' = 0
    /\ s_pc' = "idle"
    /\ UNCHANGED <<s_att, s_turns, notSess>>

\* process_speech is cancelled or raises: finally closes the pre-warmed session.
SessEnds ==
    /\ s_pc # "done"
    /\ s_state' = SessClosed(s_state, s_pending)
    /\ s_pending' = 0
    /\ s_pc' = "done"
    /\ UNCHANGED <<s_stream, s_fed, s_att, s_turns, notSess>>

SessNext ==
    \/ SessPrewarm \/ SessDrops \/ SessTurnStarts \/ SessText \/ SessRestart
    \/ SessTaskFails \/ SessInterrupted \/ SessCompletes \/ SessEnds

SessSpec == SessInit /\ [][SessNext]_vars

-----------------------------------------------------------------------------
(* The audio path of one attempt on its own: the session's receive task puts
   chunks on audio_queue, forward_audio takes them and calls the send
   function.  Chunks are numbered in the order the session produced them *)

MaxFwdChunks == 5

notFwd == <<callVars, flushVars, guardVars, vadVars, sessVars, regVars, boundVars,
              vhSideVars, bookVars,
             toolVars,
             pipeVars,
             retryVars,
             fileVars>>

FwdInit ==
    /\ CallInit /\ FlushIdle /\ GuardIdle /\ SideIdleExcept("fwd")
    /\ a_pc = "get" /\ a_queue = <<>> /\ a_made = 0 /\ a_recv = "run"
    /\ a_held = 0 /\ a_sent = <<>>

\* ElevenLabsInputStreamer._receive_audio: a message with audio.
FwdProduce ==
    /\ a_recv = "run" /\ a_made < MaxFwdChunks
    /\ a_made' = a_made + 1
    /\ a_queue' = Append(a_queue, a_made + 1)
    /\ UNCHANGED <<a_pc, a_recv, a_held, a_sent, notFwd>>

\* _receive_audio ends (isFinal, or the connection was closed): finally puts
\* the sentinel.
FwdFinal ==
    /\ a_recv = "run"
    /\ a_recv' = "done"
    /\ a_queue' = Append(a_queue, EndOfAudio)
    /\ UNCHANGED <<a_pc, a_made, a_held, a_sent, notFwd>>

\* A variant that takes the newest element of the queue.
FwdTakeNewest(q) == q[Len(q)]

\* The element get_audio_chunks takes from the queue.
FwdTake(q) == Head(q)

\* get_audio_chunks: the next element of the queue; the sentinel ends the
\* iteration.
FwdGet ==
    /\ a_pc = "get" /\ a_queue # <<>>
    /\ a_queue' = Tail(a_queue)
    /\ IF FwdTake(a_queue) = EndOfAudio
       THEN a_pc' = "done" /\ UNCHANGED a_held
       ELSE a_pc' = "send" /\ a_held' = FwdTake(a_queue)
    /\ UNCHANGED <<a_made, a_recv, a_sent, notFwd>>

\* send_audio_fn(audio_chunk): the chunk goes to the channel, or the call
\* raises (the guard before the first chunk, a closed channel) and
\* forward_audio ends.
FwdSend ==
    /\ a_pc = "send"
    /\ \/ /\ a_sent' = Append(a_sent, a_held)
          /\ a_pc' = "get"
       \/ /\ a_pc' = "raised"
          /\ UNCHANGED a_sent
    /\ a_held' = 0
    /\ UNCHANGED <<a_queue, a_made, a_recv, notFwd>>

\* audio_task.cancel(): forward_audio is cancelled where it waits.
FwdCancel ==
    /\ a_pc \in {"get", "send"}
    /\ a_pc' = "cancelled"
    /\ a_held' = 0
    /\ UNCHANGED <<a_queue, a_made, a_recv, a_sent, notFwd>>

FwdNext == FwdProduce \/ FwdFinal \/ FwdGet \/ FwdSend \/ FwdCancel

FwdSpec == FwdInit /\ [][FwdNext]_vars

-----------------------------------------------------------------------------
(* The active-call registry with several sessions of the endpoint running
   side by side.  Every call has its own call id: the start event of a
   session carries an id that no other session carries *)

MaxCalls == 3

RegSessions == 1..MaxCalls
RegIds == 1..MaxCalls

notReg == <<callVars, flushVars, guardVars, vadVars, sessVars, fwdVars, boundVars,
              vhSideVars, bookVars,
             toolVars,
             pipeVars,
             retryVars,
             fileVars>>

RegInit ==
    /\ CallInit /\ FlushIdle /\ GuardIdle /\ SideIdleExcept("reg")
    /\ r_active = [c \in RegIds |-> 0]
    /\ r_call_sid = [s \in RegSessions |-> 0]
    /\ r_phase = [s \in RegSessions |-> "accepted"]

\* A variant of the deletion that empties the registry.
RegDeletedAll(reg, c) == [k \in DOMAIN reg |-> 0]

\* del active_calls[call_sid], guarded by "call_sid in active_calls"
\* (call_sid None is in no registry).
RegDeleted(reg, c) ==
    IF c \in DOMAIN reg THEN [reg EXCEPT ![c] = 0] ELSE reg

\* start: the session's call_sid is set and the registry entry written; the
\* entry holds the session's stream.
RegStart(s) ==
    /\ r_phase[s] = "accepted"
    /\ \E c \in RegIds :
          /\ \A t \in RegSessions : r_call_sid[t] # c
          /\ r_call_sid' = [r_call_sid EXCEPT ![s] = c]
          /\ r_active' = [r_active EXCEPT ![c] = s]
    /\ r_phase' = [r_phase EXCEPT ![s] = "started"]
    /\ UNCHANGED notReg

\* stop: the entry of the session's call_sid is deleted and the loop ends.
RegStop(s) ==
    /\ r_phase[s] \in {"accepted", "started"}
    /\ r_active' = RegDeleted(r_active, r_call_sid[s])
    /\ r_phase' = [r_phase EXCEPT ![s] = "stopped"]
    /\ UNCHANGED <<r_call_sid, notReg>>

\* The receive loop ends without a stop event (disconnect, exception).
RegLoopEnds(s) ==
    /\ r_phase[s] \in {"accepted", "started"}
    /\ r_phase' = [r_phase EXCEPT ![s] = "disconnected"]
    /\ UNCHANGED <<r_active, r_call_sid, notReg>>

\* finally of the endpoint: the session is over.
RegFinally(s) ==
    /\ r_phase[s] # "ended"
    /\ r_active' = RegDeleted(r_active, r_call_sid[s])
    /\ r_phase' = [r_phase EXCEPT ![s] = "ended"]
    /\ UNCHANGED <<r_call_sid, notReg>>

RegNext ==
    \E s \in RegSessions :
        RegStart(s) \/ RegStop(s) \/ RegLoopEnds(s) \/ RegFinally(s)

RegSpec == RegInit /\ [][RegNext]_vars

-----------------------------------------------------------------------------
(* _find_sentence_boundary on its own.  A text is a sequence of characters;
   indices are counted from 0 as in the source *)

MaxBoundLen == 4

BoundChars == {"a", ".", "!", "?", " ", "\n"}

RECURSIVE TextsUpTo(_)
TextsUpTo(n) ==
    IF n = 0 THEN {<<>>}
    ELSE LET shorter == TextsUpTo(n - 1) IN
         shorter \cup {Append(t, c) : t \in {u \in shorter : Len(u) = n - 1},
                                      c \in BoundChars}

notBound == <<callVars, flushVars, guardVars, vadVars, sessVars, fwdVars,
              regVars,
              vhSideVars, bookVars,
             toolVars,
             pipeVars,
             retryVars,
             fileVars>>

BoundInit ==
    /\ CallInit /\ FlushIdle /\ GuardIdle /\ SideIdleExcept("bound")
    /\ b_text \in TextsUpTo(MaxBoundLen)
    /\ b_called = FALSE /\ b_result = -1

\* str.find(pat) for a pattern of two characters: the lowest index at which
\* pat occurs in text, -1 when it does not occur.
Find(text, pat) ==
    LET hits == {i \in 0..(Len(text) - 2) :
                    text[i + 1] = pat[1] /\ text[i + 2] = pat[2]}
    IN IF hits = {} THEN -1
       ELSE CHOOSE i \in hits : \A j \in hits : i <= j

\* The list the loop goes through, in its order.
BoundaryPatterns ==
    << <<".", " ">>, <<"!", " ">>, <<"?", " ">>,
       <<".", "\n">>, <<"!", "\n">>, <<"?", "\n">> >>

\* The loop from pattern k on: the first pattern of the list that occurs
\* in text decides the result.
RECURSIVE BoundaryFrom(_, _)
BoundaryFrom(text, k) ==
    IF k > Len(BoundaryPatterns) THEN -1
    ELSE IF Find(text, BoundaryPatterns[k]) # -1
         THEN Find(text, BoundaryPatterns[k]) + Len(BoundaryPatterns[k])
         ELSE BoundaryFrom(text, k + 1)

FindSentenceBoundary(text) == BoundaryFrom(text, 1)

\* One call of _find_sentence_boundary(b_text).
BoundCall ==
    /\ ~b_called
    /\ b_called' = TRUE
    /\ b_result' = FindSentenceBoundary(b_text)
    /\ UNCHANGED <<b_text, notBound>>

BoundNext == BoundCall

BoundSpec == BoundInit /\ [][BoundNext]_vars

-----------------------------------------------------------------------------
(* VoiceHandler.process_incoming_audio and the transcription task on their
   own.  Frames are numbered in the order they are passed in *)

MaxFrames == 5

notVh == <<callVars, flushVars, guardVars, vadVars, sessVars, fwdVars,
           regVars, boundVars, bookVars,
             toolVars,
             pipeVars,
             retryVars,
             fileVars>>

VhInit ==
    /\ CallInit /\ FlushIdle /\ GuardIdle /\ SideIdleExcept("vh")
    /\ h_transcribing = FALSE /\ h_tasks = <<>> /\ h_buffer = <<>>
    /\ h_in = 0 /\ h_taken = <<>>

\* The tasks that were created and have not ended.
RunningTasks == {t \in DOMAIN h_tasks : h_tasks[t] # "ended"}

\* A variant of the test that starts a task for every frame.
MayStartAlways == TRUE

\* The test before create_task.
MayStart == ~h_transcribing

\* process_incoming_audio(frame): the frame is put on audio_buffer; when the
\* flag is clear it is set and the transcription task created.
VhAudio ==
    /\ h_in < MaxFrames
    /\ h_in' = h_in + 1
    /\ h_buffer' = Append(h_buffer, h_in + 1)
    /\ IF MayStart
       THEN /\ h_transcribing' = TRUE
            /\ h_tasks' = Append(h_tasks, "start")
       ELSE UNCHANGED <<h_transcribing, h_tasks>>
    /\ UNCHANGED <<h_taken, notVh>>

\* _start_transcription: dg_connection.start(options) succeeds.
VhStarted(t) ==
    /\ h_tasks[t] = "start"
    /\ h_tasks' = [h_tasks EXCEPT ![t] = "stream"]
    /\ UNCHANGED <<h_transcribing, h_buffer, h_in, h_taken, notVh>>

\* start fails (returns false or raises): finally clears the flag and the
\* task ends.
VhStartFails(t) ==
    /\ h_tasks[t] = "start"
    /\ h_tasks' = [h_tasks EXCEPT ![t] = "ended"]
    /\ h_transcribing' = FALSE
    /\ UNCHANGED <<h_buffer, h_in, h_taken, notVh>>

\* The streaming loop takes the oldest frame of the buffer and sends it.
VhSend(t) ==
    /\ h_tasks[t] = "stream" /\ h_transcribing /\ h_buffer # <<>>
    /\ h_taken' = Append(h_taken, Head(h_buffer))
    /\ h_buffer' = Tail(h_buffer)
    /\ UNCHANGED <<h_transcribing, h_tasks, h_in, notVh>>

\* An exception leaves the streaming loop: the connection is finished,
\* which is an await.
VhLoopEnds(t) ==
    /\ h_tasks[t] = "stream"
    /\ h_tasks' = [h_tasks EXCEPT ![t] = "finish"]
    /\ UNCHANGED <<h_transcribing, h_buffer, h_in, h_taken, notVh>>

\* finish is over: finally clears the flag and the task ends.
VhFinished(t) ==
    /\ h_tasks[t] = "finish"
    /\ h_tasks' = [h_tasks EXCEPT ![t] = "ended"]
    /\ h_transcribing' = FALSE
    /\ UNCHANGED <<h_buffer, h_in, h_taken, notVh>>

VhNext ==
    \/ VhAudio
    \/ \E t \in DOMAIN h_tasks :
          VhStarted(t) \/ VhStartFails(t) \/ VhSend(t) \/ VhLoopEnds(t)
          \/ VhFinished(t)

VhSpec == VhInit /\ [][VhNext]_vars

-----------------------------------------------------------------------------
(* AppointmentManager.book_appointment on its own.  A date argument is the
   pair of month and day its string spells, a time argument the pair of hour
   and minute; a string that strptime rejects spells a field out of range.
   The clock counts seconds of day Today *)

MaxBookings == 2
MaxClock == 1

Today == <<6, 15>>

BookDates == {<<5, 31>>, <<6, 14>>, <<6, 15>>, <<7, 1>>, <<13, 1>>, <<6, 32>>}
BookTimes == {8, 9, 16, 17, 24} \X {59, 60}
BookNames == {"Ana", "Luis"}

notBook == <<callVars, flushVars, guardVars, vadVars, sessVars, fwdVars,
             regVars, boundVars, vhSideVars,
             toolVars,
             pipeVars,
             retryVars,
             fileVars>>

BookInit ==
    /\ CallInit /\ FlushIdle /\ GuardIdle /\ SideIdleExcept("book")
    /\ k_appointments = <<>> /\ k_now = 0 /\ k_calls = 0
    /\ k_last = [date |-> <<0, 0>>, time |-> <<0, 0>>, name |-> "Ana",
                 success |-> FALSE, appointment_id |-> 0]

\* datetime.strptime(date, "%Y-%m-%d") raises ValueError.
DateMalformed(date) == date[1] \notin 1..12 \/ date[2] \notin 1..31

\* datetime.strptime(time, "%H:%M") raises ValueError.
TimeMalformed(time) == time[1] > 23 \/ time[2] > 59

\* appointment_date.date() < datetime.now().date()
DateInPast(date) ==
    date[1] < Today[1] \/ (date[1] = Today[1] /\ date[2] < Today[2])

\* A variant of the test of the hour that lets 17 pass.
OutsideBusinessHoursAfter17(time) == time[1] < 9 \/ time[1] > 17

\* hour < 9 or hour >= 17
OutsideBusinessHours(time) == time[1] < 9 \/ time[1] >= 17

\* f"APT-{datetime.now().strftime('%Y%m%d%H%M%S')}": one id per second.
AppointmentId == (Today[1] * 100 + Today[2]) * 100 + k_now

\* self.appointments[appointment_id] = {...}
Stored(apps, id, rec) ==
    [x \in DOMAIN apps \cup {id} |-> IF x = id THEN rec ELSE apps[x]]

\* One call of book_appointment(date, time, name, phone).
BookAppointment ==
    /\ k_calls < MaxBookings
    /\ k_calls' = k_calls + 1
    /\ \E date \in BookDates, time \in BookTimes, name \in BookNames :
        IF DateMalformed(date)
        THEN /\ k_last' = [date |-> date, time |-> time, name |-> name,
                           success |-> FALSE, appointment_id |-> 0]
             /\ UNCHANGED k_appointments
        ELSE IF TimeMalformed(time)
        THEN /\ k_last' = [date |-> date, time |-> time, name |-> name,
                           success |-> FALSE, appointment_id |-> 0]
             /\ UNCHANGED k_appointments
        ELSE IF DateInPast(date)
        THEN /\ k_last' = [date |-> date, time |-> time, name |-> name,
                           success |-> FALSE, appointment_id |-> 0]
             /\ UNCHANGED k_appointments
        ELSE IF OutsideBusinessHours(time)
        THEN /\ k_last' = [date |-> date, time |-> time, name |-> name,
                           success |-> FALSE, appointment_id |-> 0]
             /\ UNCHANGED k_appointments
        ELSE /\ k_appointments' =
                   Stored(k_appointments, AppointmentId,
                          [id |-> AppointmentId, date |-> date, time |-> time,
                           name |-> name, status |-> "confirmed"])
             /\ k_last' = [date |-> date, time |-> time, name |-> name,
                           success |-> TRUE, appointment_id |-> AppointmentId]
    /\ UNCHANGED <<k_now, notBook>>

\* A second passes.
BookTick ==
    /\ k_now < MaxClock
    /\ k_now' = k_now + 1
    /\ UNCHANGED <<k_appointments, k_calls, k_last, notBook>>

BookNext == BookAppointment \/ BookTick

BookSpec == BookInit /\ [][BookNext]_vars

-----------------------------------------------------------------------------
(* process_message and _execute_tool on their own: a reply that asks for
   tools, consumed to its end *)

MaxToolCalls == 2

\* The names _execute_tool dispatches on.
ToolNames == {"book_appointment", "check_appointment", "escalate_to_human"}

\* The names a tool_use block may carry.
RequestedNames == ToolNames \cup {"nonexistent_tool"}

\* A tool_use block: its name, and whether the tool it names throws an
\* Exception when it is called with the block's input.
ToolCalls == [name : RequestedNames, throws : BOOLEAN]

ToolCallSeqs == UNION {[1..n -> ToolCalls] : n \in 1..MaxToolCalls}

notTool == <<callVars, flushVars, guardVars, vadVars, sessVars, fwdVars,
             regVars, boundVars, vhSideVars, bookVars,
             pipeVars,
             retryVars,
             fileVars>>

ToolInit ==
    /\ CallInit /\ FlushIdle /\ GuardIdle /\ SideIdleExcept("tool")
    /\ x_calls \in ToolCallSeqs
    /\ x_pc = "start"
    /\ x_history = <<[role |-> "assistant", content |-> "greeting", n |-> 0]>>
    /\ x_results = <<>>
    /\ x_events = <<>>

\* A variant of _execute_tool without its except clause.
ExecuteToolPropagates(call) ==
    IF call.name \in ToolNames
    THEN [raised |-> call.throws, error |-> FALSE]
    ELSE [raised |-> FALSE, error |-> TRUE]

\* _execute_tool: whether the call raised, and whether the dict it returned
\* has an "error" key.
ExecuteTool(call) ==
    IF call.name \in ToolNames
    THEN [raised |-> FALSE, error |-> call.throws]
    ELSE [raised |-> FALSE, error |-> TRUE]

ToolEvent(type, name, error) == [type |-> type, name |-> name, error |-> error]

\* except Exception of process_message: the apology is yielded.
ToolErrorEvent == ToolEvent("error", "", FALSE)

\* The user message is appended before the first request.
ToolStart ==
    /\ x_pc = "start"
    /\ x_history' = Append(x_history, [role |-> "user", content |-> "text", n |-> 0])
    /\ x_pc' = "s1"
    /\ UNCHANGED <<x_calls, x_results, x_events, notTool>>

\* The first stream ends with its tool_use blocks, or fails.
ToolStream ==
    /\ x_pc = "s1"
    /\ \E ok \in BOOLEAN :
        IF ok
        THEN /\ x_history' = Append(x_history,
                    [role |-> "assistant", content |-> "tool_use",
                     n |-> Len(x_calls)])
             /\ x_pc' = "exec"
             /\ UNCHANGED x_events
        ELSE /\ x_events' = Append(x_events, ToolErrorEvent)
             /\ x_pc' = "done"
             /\ UNCHANGED x_history
    /\ UNCHANGED <<x_calls, x_results, notTool>>

\* One round of the loop over tool_calls: the tool is executed, the event
\* is yielded and the result is collected.
ToolExec ==
    /\ x_pc = "exec"
    /\ LET call == x_calls[Len(x_results) + 1]
           r == ExecuteTool(call)
       IN IF r.raised
          THEN /\ x_events' = Append(x_events, ToolErrorEvent)
               /\ x_pc' = "done"
               /\ UNCHANGED x_results
          ELSE /\ x_events' = Append(x_events,
                      ToolEvent("tool_call", call.name, r.error))
               /\ x_results' = Append(x_results,
                      [name |-> call.name, error |-> r.error])
               /\ x_pc' = IF Len(x_results) + 1 = Len(x_calls)
                          THEN "results" ELSE "exec"
    /\ UNCHANGED <<x_calls, x_history, notTool>>

\* All tool results are appended as a single user message.
ToolResults ==
    /\ x_pc = "results"
    /\ x_history' = Append(x_history,
           [role |-> "user", content |-> "tool_result", n |-> Len(x_results)])
    /\ x_pc' = "s2"
    /\ UNCHANGED <<x_calls, x_results, x_events, notTool>>

\* The follow-up stream: text, nothing, or a failure.
ToolFollowUp ==
    /\ x_pc = "s2"
    /\ \E out \in {"text", "empty", "fails"} :
        /\ x_events' = IF out = "text"
                       THEN Append(x_events, ToolEvent("text", "", FALSE))
                       ELSE IF out = "fails"
                       THEN Append(x_events, ToolErrorEvent)
                       ELSE x_events
        /\ x_history' = IF out = "text"
                        THEN Append(x_history,
                                 [role |-> "assistant", content |-> "text", n |-> 0])
                        ELSE x_history
    /\ x_pc' = "done"
    /\ UNCHANGED <<x_calls, x_results, notTool>>

ToolNext == ToolStart \/ ToolStream \/ ToolExec \/ ToolResults \/ ToolFollowUp

ToolSpec == ToolInit /\ [][ToolNext]_vars

-----------------------------------------------------------------------------
(* The loop of _process_with_input_streaming on its own, with the three
   kinds of events: a run without interrupt or restart *)

MaxEvents == 3

\* The apology of the error event.
Apology == <<"L", "o", " ", "s", "i", "e", "n", "t", "o", ".">>

PipeEvent(kind, chars) == [kind |-> kind, inc |-> Inc(chars)]

PipeTextEvents == {PipeEvent("text", c) : c \in {Sure, Whats, Congratulations}}

\* What process_message can yield: text events, at most one round of
\* tool_call events between the two streams, and an error event only as
\* the last one.
PipeInputs ==
    { s \in UNION { [1..n -> PipeTextEvents
                               \cup {PipeEvent("tool_call", <<>>),
                                     PipeEvent("error", Apology)}]
                    : n \in 0..MaxEvents } :
        /\ \A i \in DOMAIN s : s[i].kind = "error" => i = Len(s)
        /\ Cardinality({i \in DOMAIN s : s[i].kind = "tool_call"}) <= 1 }

notPipe == <<callVars, flushVars, guardVars, vadVars, sessVars, fwdVars,
             regVars, boundVars, vhSideVars, bookVars, toolVars,
             retryVars,
             fileVars>>

PipeInit ==
    /\ CallInit /\ FlushIdle /\ GuardIdle /\ SideIdleExcept("pipe")
    /\ p_in \in PipeInputs
    /\ p_pos = 1 /\ p_buf = <<>> /\ p_out = <<>> /\ p_eos = FALSE

\* A text event: the increment joins the buffer, which is submitted when
\* the flush condition holds.
PipeText ==
    /\ p_pos <= Len(p_in) /\ p_in[p_pos].kind = "text"
    /\ LET buf == Append(p_buf, p_in[p_pos].inc)
       IN  IF ShouldFlush(buf)
           THEN /\ p_out' = Append(p_out, BufText(buf))
                /\ p_buf' = <<>>
           ELSE /\ p_buf' = buf
                /\ UNCHANGED p_out
    /\ p_pos' = p_pos + 1
    /\ UNCHANGED <<p_in, p_eos, notPipe>>

\* A tool_call event: a non-empty buffer is submitted.
PipeToolCall ==
    /\ p_pos <= Len(p_in) /\ p_in[p_pos].kind = "tool_call"
    /\ IF p_buf # <<>>
       THEN /\ p_out' = Append(p_out, BufText(p_buf))
            /\ p_buf' = <<>>
       ELSE UNCHANGED <<p_out, p_buf>>
    /\ p_pos' = p_pos + 1
    /\ UNCHANGED <<p_in, p_eos, notPipe>>

\* An error event: the apology is submitted; the buffer is left as it is.
PipeError ==
    /\ p_pos <= Len(p_in) /\ p_in[p_pos].kind = "error"
    /\ p_out' = Append(p_out, p_in[p_pos].inc.text)
    /\ p_pos' = p_pos + 1
    /\ UNCHANGED <<p_in, p_buf, p_eos, notPipe>>

\* After the loop: what is left in the buffer is submitted and end-of-input
\* signalled.
PipeEnd ==
    /\ p_pos = Len(p_in) + 1
    /\ IF p_buf # <<>>
       THEN /\ p_out' = Append(p_out, BufText(p_buf))
            /\ p_buf' = <<>>
       ELSE UNCHANGED <<p_out, p_buf>>
    /\ p_eos' = TRUE
    /\ p_pos' = p_pos + 1
    /\ UNCHANGED <<p_in, notPipe>>

PipeNext == PipeText \/ PipeToolCall \/ PipeError \/ PipeEnd

PipeSpec == PipeInit /\ [][PipeNext]_vars

\* The characters the generator produced, in order of generation: the text
\* increments and the error messages.
RECURSIVE Generated(_)
Generated(events) ==
    IF events = <<>> THEN <<>>
    ELSE (IF Head(events).kind \in {"text", "error"}
          THEN Head(events).inc.text ELSE <<>>) \o Generated(Tail(events))

-----------------------------------------------------------------------------
(* do_full_response with a synthesis session whose connection closes
   mid-stream, on its own *)

MaxRetryIncs == 3

notRetry == <<callVars, flushVars, guardVars, vadVars, sessVars, fwdVars,
              regVars, boundVars, vhSideVars, bookVars, toolVars, pipeVars,
             fileVars>>

RetryInit ==
    /\ CallInit /\ FlushIdle /\ GuardIdle /\ SideIdleExcept("retry")
    /\ y_attempt = "first" /\ y_session = "open" /\ y_gen = 0 /\ y_made = 0
    /\ y_queue = 0 /\ y_sent = <<>>

\* A chunk of audio on the channel, tagged with the attempt that sent it.
RetryMedia(att) == [ev |-> "media", attempt |-> att]

\* The agent yields a text increment and the loop submits it.
RetryText ==
    /\ y_attempt \in {"first", "second"} /\ y_session = "open"
    /\ y_gen < MaxRetryIncs
    /\ y_gen' = y_gen + 1
    /\ UNCHANGED <<y_attempt, y_session, y_made, y_queue, y_sent, notRetry>>

\* _receive_audio: the session returns a chunk for submitted text.
RetryProduce ==
    /\ y_attempt \in {"first", "second"} /\ y_session = "open"
    /\ y_made < y_gen
    /\ y_made' = y_made + 1
    /\ y_queue' = y_queue + 1
    /\ UNCHANGED <<y_attempt, y_session, y_gen, y_sent, notRetry>>

\* forward_audio takes a chunk and sends it (no final transcript is queued,
\* so the guarded send of the first attempt sends as the plain one does).
RetryForward ==
    /\ y_attempt \in {"first", "second"} /\ y_queue > 0
    /\ y_queue' = y_queue - 1
    /\ y_sent' = Append(y_sent, RetryMedia(y_attempt))
    /\ UNCHANGED <<y_attempt, y_session, y_gen, y_made, notRetry>>

\* The connection of the first attempt's session closes with an error.
RetryBreaks ==
    /\ y_attempt = "first" /\ y_session = "open"
    /\ y_session' = "broken"
    /\ UNCHANGED <<y_attempt, y_gen, y_made, y_queue, y_sent, notRetry>>

\* send_text or flush on the closed connection raises WsClosedError: the
\* audio task is cancelled and the handler of do_full_response runs up to
\* the connect of the fresh session.
RetrySendRaises ==
    /\ y_attempt \in {"first", "second"} /\ y_session = "broken"
    /\ y_attempt' = IF y_attempt = "first" THEN "restart" ELSE "failed"
    /\ y_queue' = 0
    /\ UNCHANGED <<y_session, y_gen, y_made, y_sent, notRetry>>

\* The connect returns: the pipeline is run again on the fresh session with
\* send_audio_to_twilio.
RetryReconnect ==
    /\ y_attempt = "restart"
    /\ y_attempt' = "second"
    /\ y_session' = "open" /\ y_gen' = 0 /\ y_made' = 0 /\ y_queue' = 0
    /\ UNCHANGED <<y_sent, notRetry>>

\* The stream ended, end-of-input was signalled and the audio task
\* finished: the attempt returns.
RetryEnd ==
    /\ y_attempt \in {"first", "second"} /\ y_session = "open"
    /\ y_gen > 0 /\ y_made = y_gen /\ y_queue = 0
    /\ y_attempt' = "done"
    /\ UNCHANGED <<y_session, y_gen, y_made, y_queue, y_sent, notRetry>>

RetryNext ==
    \/ RetryText \/ RetryProduce \/ RetryForward \/ RetryBreaks
    \/ RetrySendRaises \/ RetryReconnect \/ RetryEnd

RetrySpec == RetryInit /\ [][RetryNext]_vars

-----------------------------------------------------------------------------
(* Two calls, each with its own AppointmentManager over the same file *)

MaxFileClock == 2

FileCalls == {1, 2}

notFile == <<callVars, flushVars, guardVars, vadVars, sessVars, fwdVars,
             regVars, boundVars, vhSideVars, bookVars, toolVars, pipeVars,
             retryVars>>

FileInit ==
    /\ CallInit /\ FlushIdle /\ GuardIdle /\ SideIdleExcept("file")
    /\ m_file = <<>>
    /\ m_apps = [c \in FileCalls |-> <<>>]
    /\ m_state = [c \in FileCalls |-> "new"]
    /\ m_now = 0

\* _load_appointments: the content of the file.
LoadAppointments == m_file

\* _save_appointments: json.dump(self.appointments) over the file.
SaveAppointments(apps) == apps

\* The endpoint accepts a call: AIAgent() constructs the call's
\* AppointmentManager, which loads the file.
FileCallStarts ==
    \E c \in FileCalls :
        /\ m_state[c] = "new"
        /\ m_state' = [m_state EXCEPT ![c] = "active"]
        /\ m_apps' = [m_apps EXCEPT ![c] = LoadAppointments]
        /\ UNCHANGED <<m_file, m_now, notFile>>

\* A valid book_appointment in call c: the record is stored under the id
\* of the second and the manager's dict is saved.
FileBook ==
    \E c \in FileCalls :
        /\ m_state[c] = "active"
        /\ LET apps == Stored(m_apps[c], m_now, [id |-> m_now, call |-> c])
           IN  /\ m_apps' = [m_apps EXCEPT ![c] = apps]
               /\ m_file' = SaveAppointments(apps)
        /\ UNCHANGED <<m_state, m_now, notFile>>

\* A second passes.
FileTick ==
    /\ m_now < MaxFileClock
    /\ m_now' = m_now + 1
    /\ UNCHANGED <<m_file, m_apps, m_state, notFile>>

\* The call ends.
FileCallEnds ==
    \E c \in FileCalls :
        /\ m_state[c] = "active"
        /\ m_state' = [m_state EXCEPT ![c] = "ended"]
        /\ UNCHANGED <<m_file, m_apps, m_now, notFile>>

FileNext == FileCallStarts \/ FileBook \/ FileTick \/ FileCallEnds

FileSpec == FileInit /\ [][FileNext]_vars

-----------------------------------------------------------------------------
(* Properties *)

\* The entries the history gained since the checkpoint of the last turn.
NewEntries ==
    SubSeq(conversation_history, Len(history_pre) + 1, Len(conversation_history))

\* C1: once the handling of an interrupt during generation has finished, the
\* history has the length of the pre-turn checkpoint and equals the pre-turn
\* history: no entry of the interrupted turn is left.
C1_CheckpointIntegrity ==
    outcome = "interrupted" =>
        /\ Len(conversation_history) = history_checkpoint
        /\ conversation_history = history_pre

\* An interrupted turn whose user, tool-use and tool-result entries the
\* rollback removed.
C1_Witness ==
    /\ outcome = "interrupted" /\ pc = "idle"
    /\ rolled_back >= 3
    /\ history_pre # <<>>

\* C2: once a clear event was sent for a turn whose response task forwards
\* the audio, by the controller or by the VAD branch of the receive loop, no
\* media event of that turn is sent.
C2_NoMediaAfterClear ==
    rt # "none" =>
        \A i, j \in DOMAIN sent :
            (i < j /\ sent[i].ev = "clear") => sent[j].ev # "media"

\* C3: when the onset and the completion of the response task are both ready
\* as the race wait returns, the controller takes the interrupt path: it
\* sends no mark and does not go on to wait for the playback.
C3_OnsetPriority ==
    [][ (pc = "race" /\ speech_detected /\ rt = "done" /\ pc' # "race")
        => (marks' = marks /\ pc' # "playback") ]_vars

\* C4: when a further final fragment arrives before the first audio chunk of
\* a turn was sent, the turn is not interrupted but restarted with the merged
\* utterance: the controller never takes the interrupt path of a turn that
\* has sent no audio while a later fragment waits to be merged.
C4_SpeculativeMerge ==
    ~ ( /\ pc \in {"int_clear", "await_cancel"}
        /\ MediaCount = 0
        /\ transcript # <<>>
        /\ nFinals > transcript[Len(transcript)]
        /\ (transcript_queue # <<>> \/ extra_parts # <<>>) )

\* C5: while a turn is in progress, a mark echo resets the speaking flag
\* only when the controller waits for the playback and the echoed mark is
\* the one sent for that turn.
C5_MatchingEcho ==
    [][ ( /\ pc \in {"connect", "race", "int_clear", "await_cancel", "rest",
                     "rest_send", "playback", "pb_cleared"}
          /\ echoQ # <<>> /\ echoQ' = Tail(echoQ)
          /\ is_agent_speaking /\ ~is_agent_speaking' )
        => (pc = "playback" /\ Head(echoQ) = response_counter) ]_vars

\* C6: after an onset while the controller waited for the playback, the
\* history is cut back to the pre-turn checkpoint.
C6_PlaybackRollback ==
    outcome = "barged" =>
        /\ Len(conversation_history) = history_checkpoint
        /\ conversation_history = history_pre

\* C7: no mark name is sent twice during a call, and the numbers of the
\* response_end marks increase strictly in the order the marks are sent.
C7_MarkMonotonic ==
    /\ \A i, j \in DOMAIN marks : i # j => marks[i] # marks[j]
    /\ \A i, j \in DOMAIN marks :
          (i < j /\ marks[i] > 0 /\ marks[j] > 0) => marks[i] < marks[j]

\* The greeting mark and the marks of two completed turns were sent.
C7_Witness == Len(marks) = 3 /\ marks[2] = 1 /\ marks[3] = 2

C9_StopForcesResolution ==
    (pc = "playback" /\ stop_pc = "playback") ~> (pc # "playback")

\* C10: after a disconnect of the channel or a stop event the session ends:
\* the controller has terminated, no synthesis session is open, the
\* recognizer connection is finished and the call id is not in the registry.
C10_SessionEnds ==
    (rpc = "done") ~>
        ( /\ ended /\ pc = "done"
          /\ pending_tts_stream = "none" /\ tts_stream = "none"
          /\ dg # "started"
          /\ CallSid \notin active_calls )

\* C11: the final transcript of the speech that raised the onset is not lost
\* by the interrupt: when an interrupted turn is rolled back, every fragment
\* the guard took from the transcript queue is part of that turn's utterance.
C11_OnsetTranscriptKept ==
    [][ (pc # "idle" /\ pc' = "idle" /\ outcome' = "interrupted")
        => \A i \in DOMAIN extra_parts :
              \E j \in DOMAIN transcript : <<transcript[j]>> = extra_parts[i] ]_vars

\* C12: a frame that cannot be parsed is dropped and the receive loop goes
\* on: the loop ends only when a stop event was handled or the channel closed.
C12_MalformedDropped ==
    [][ (rpc = "recv" /\ rpc' = "done")
        => (chan' = "closed" \/ stop_pc' # "none") ]_vars

\* C13: when the controller is back to wait for a transcript after an
\* interrupt during generation, the response task and its audio task have
\* ended, the turn's synthesis session is closed and no media event of the
\* turn is sent.
C13_TeardownBeforeIdle ==
    (pc = "idle" /\ outcome = "interrupted") =>
        /\ rt = "none" /\ audio_task = "none" /\ tts_stream = "none"
        /\ audio_queue = <<>>
        /\ \A i \in DOMAIN sent : sent[i].ev = "media" => sent[i].utt = <<>>

\* The controller is back after an interrupt that removed entries of the
\* turn, and the next transcript waits in the queue.
C13_Witness ==
    /\ pc = "idle" /\ outcome = "interrupted"
    /\ rolled_back >= 2
    /\ transcript_queue # <<>>

\* C14: no mark is sent for a turn that is interrupted during generation:
\* when the interrupt handling ends, the turn has sent no response_end mark
\* and the counter is the one of the last mark sent; a response_end mark is
\* sent only when the turn's generation ended by itself, as the controller
\* goes on to wait for the playback.
C14_NoMarkForInterrupted ==
    [][ /\ (pc # "idle" /\ pc' = "idle" /\ outcome' = "interrupted")
            => /\ \A i \in DOMAIN sent : sent[i].ev = "mark" => sent[i].n = 0
               /\ marks' = marks /\ echoQ' = echoQ
               /\ response_counter' = response_counter
        /\ (marks' # marks /\ marks'[Len(marks')] > 0)
            => /\ pc \in {"race", "rest"} /\ pc' = "playback"
               /\ pc = "race" => rt \in {"done", "failed"}
               /\ marks'[Len(marks')] = response_counter' ]_vars

\* The second turn of a call was interrupted during generation after the
\* first one completed: the marks sent are the greeting's and the first
\* turn's.
C14_Witness ==
    /\ pc = "idle" /\ outcome = "interrupted" /\ rolled_back >= 1
    /\ marks = <<0, 1>> /\ response_counter = 1

\* C15: when the agent's stream fails during a turn, the apology is
\* submitted to the synthesis session, the response task, unless it is
\* cancelled or the connection of the synthesis session closes as well,
\* ends without an exception once the audio was forwarded, and the
\* controller completes the turn: it sends the turn's mark and goes on to
\* wait for the playback.
C15_AgentErrorApology ==
    [][ /\ (rt = "run" /\ ~agent_error /\ agent_error' /\ ~aborted) => tts_fed'
        /\ (rt = "run" /\ rt' \notin {"run", "cancelling"} /\ agent_error
            /\ audio_task = "done" /\ tts_stream # "broken")
              => rt' = "done"
        /\ (pc = "race" /\ pc' # "race" /\ agent_error /\ rt = "done"
            /\ chan = "open")
              => /\ pc' = "playback"
                 /\ marks' = Append(marks, response_counter')
                 /\ response_counter' = response_counter + 1 ]_vars

\* The controller waits for the playback of a turn whose agent stream failed:
\* the task ended without an exception, audio of the turn was sent and the
\* turn's mark is the last one sent.
C15_Witness ==
    /\ pc = "playback" /\ agent_error /\ rt = "done"
    /\ \E i \in DOMAIN sent : sent[i].ev = "media" /\ sent[i].utt = transcript
    /\ marks # <<>> /\ marks[Len(marks)] = response_counter
    /\ response_counter >= 1

\* C16: an exception of a turn's response task does not end the controller:
\* when the task has failed and the channel is open, the controller closes
\* the turn's session and completes the turn, and the controller's loop is
\* left only once the channel is closed.
C16_TurnErrorNotFatal ==
    /\ [](pc = "done" => chan = "closed")
    /\ [][ (pc = "race" /\ rt = "failed" /\ pc' # "race" /\ chan = "open")
           => (pc' = "playback" /\ tts_stream' = "none") ]_vars

\* The controller is back to wait for a transcript after a turn whose
\* response task failed, the channel is open and the next transcript waits.
C16_Witness ==
    /\ pc = "idle" /\ outcome = "failed" /\ chan = "open"
    /\ transcript_queue # <<>>

\* C17: for the increments "Sure, ", "I can help. ", "What's" and the end
\* of the stream, the loop submits exactly two texts, "Sure, I can help. "
\* and then "What's"; and every text submitted before the end of the stream
\* holds one of the punctuation characters or has the minimum length.
C17_TwoSubmissions ==
    /\ (fl_in = <<Inc(Sure), Inc(ICanHelp), Inc(Whats)>> /\ fl_pos = Len(fl_in) + 2)
          => fl_out = <<Sure \o ICanHelp, Whats>>
    /\ fl_pos <= Len(fl_in) + 1
          => \A i \in DOMAIN fl_out :
                \/ \E k \in DOMAIN fl_out[i] : fl_out[i][k] \in Punct
                \/ Len(fl_out[i]) >= MinFlushChars


\* How often x occurs in the sequence s.
Occurrences(s, x) == Cardinality({i \in DOMAIN s : s[i] = x})

\* C18: a synthesis connection that closes with an error during a turn is
\* answered with a second attempt: while the channel is open no response
\* task ends on a session that was given text and whose connection closed; the step that answers
\* the close cuts the history back to the checkpoint, closes the session and
\* keeps the utterance, and the next step connects the replacement; when
\* the second attempt ends, the entries of the turn hold the utterance once
\* and the reply once (the reply if the stream yielded text).
C18_RetryOnClosedSession ==
    /\ []((rt \in {"done", "failed"} /\ chan = "open" /\ tts_fed)
            => tts_stream # "broken")
    /\ [][ /\ (tts_stream = "broken" /\ rt = "run" /\ rt' = "restart")
                => /\ conversation_history' =
                          Truncate(conversation_history, history_checkpoint)
                   /\ tts_stream' = "none"
                   /\ transcript' = transcript
           /\ (rt = "restart" /\ rt' = "run")
                => tts_stream' = "open" /\ ag' = "init"
           /\ (rt = "run" /\ rt' = "done" /\ attempt = "second"
                   /\ extra_parts = <<>> /\ ~agent_error)
                => /\ Occurrences(NewEntries, UserMsg(transcript)) = 1
                   /\ Occurrences(NewEntries, AssistantMsg(transcript)) <= 1
                   /\ response_text =>
                        Occurrences(NewEntries, AssistantMsg(transcript)) = 1
         ]_vars


\* C19: the transcript queue is examined for further fragments only before
\* the first chunk of a turn's first attempt: a step of the audio path that
\* takes fragments from the queue or adds to extra_parts is one of the first
\* attempt with no chunk sent yet; a turn restarts at most once; and a
\* chunk sent after the first one, or after the restart, leaves the queue
\* and extra_parts as they are.
C19_GuardBeforeFirstChunk ==
    /\ [](g_restarts <= 1)
    /\ [][ /\ (Len(g_queue') < Len(g_queue) \/ g_parts' # g_parts)
                => (g_attempt = "first" /\ g_sent = 0 /\ ~g_started)
           /\ (g_sent' = g_sent + 1 /\ (g_sent >= 1 \/ g_attempt = "second"))
                => (g_queue' = g_queue /\ g_parts' = g_parts)
           /\ (g_attempt = "restart" /\ g_attempt' # "restart")
                => (g_attempt' = "second" /\ g_restarts = 0)
         ]_vars

\* After the restart for an extension every chunk of the second attempt was
\* sent while a later fragment waited in the queue.
C19_Witness ==
    /\ g_attempt = "second" /\ g_restarts = 1 /\ g_sent = MaxGuardChunks
    /\ g_transcript = <<1, 2>> /\ g_queue = <<<<3>>>>


\* The sessions that were connected and not closed: the pre-warmed one and
\* the one of the turn.
OpenSessions ==
    (IF pending_tts_stream = "open" THEN 1 ELSE 0)
    + (IF tts_stream \in {"open", "broken"} THEN 1 ELSE 0)

\* C20: at no moment is there more than one pre-warmed and more than one
\* active session; in fact a pre-warmed session and an active one never
\* exist together, and a session becomes the active one, at the start of a
\* turn or as a replacement, only when the one before it was closed.
C20_OneSessionAtATime ==
    /\ [](OpenSessions <= 1)
    /\ [][ (tts_stream' = "open" /\ tts_stream # "open")
               => tts_stream = "none" ]_vars
    /\ [][ (pending_tts_stream' = "open" /\ pending_tts_stream # "open")
               => (tts_stream = "none" /\ tts_stream' = "none") ]_vars

\* A second turn runs on the session that was pre-warmed after the first,
\* and no other session is open.
C20_Witness ==
    /\ pc = "race" /\ rt = "run" /\ tts_stream = "open"
    /\ pending_tts_stream = "none"
    /\ response_counter = 1 /\ outcome = "none"


\* C21: whenever the controller is back at the head of its loop, waiting for
\* the next transcript, it has tried to connect a pre-warmed synthesis
\* session since the last turn began, after an interrupted turn as well as
\* after a completed one.
C21_PrewarmOnReturnToIdle ==
    pc = "idle" => prewarmed


\* C24: the VAD counts only frames received while the agent-speaking flag is
\* set: a frame received while the flag is clear raises no onset and leaves
\* the counter at zero, and when the flag becomes set no earlier frame is
\* still counted, so frames of an earlier response never count towards an
\* onset of a later one.
C24_VadCountsOnlyWhileSpeaking ==
    [][ /\ (~is_agent_speaking /\ vad_frames' # vad_frames) => vad_frames' = 0
        /\ (rpc # "vad_cleared" /\ rpc' = "vad_cleared") => is_agent_speaking
        /\ (~is_agent_speaking /\ is_agent_speaking') => vad_frames' = 0 ]_vars


\* The frames the VAD has counted after the first k frames of the log: the
\* frames at the end of that prefix that were received with the flag set and
\* an RMS above the threshold, none of them having raised an onset.
RECURSIVE VadRun(_)
VadRun(k) ==
    IF k = 0 THEN 0
    ELSE IF v_log[k].speaking /\ v_log[k].rms > VadThreshold /\ ~v_log[k].onset
         THEN VadRun(k - 1) + 1
         ELSE 0

\* C23: with the flag set, an onset is raised exactly by the frame that is
\* the third consecutive one with an RMS above the threshold, and the counter
\* is zero again afterwards; a frame at or below the threshold sets the
\* counter to zero; the counter never exceeds the required count.
C23_VadThirdConsecutiveFrame ==
    /\ v_frames \in 0..VadFramesRequired
    /\ \A i \in DOMAIN v_log :
          v_log[i].onset <=> /\ v_log[i].speaking
                             /\ v_log[i].rms > VadThreshold
                             /\ VadRun(i - 1) = VadFramesRequired - 1
    /\ v_pc = "recv" => v_frames = VadRun(Len(v_log))
    /\ v_pc = "clearing" => /\ v_frames = VadFramesRequired
                            /\ v_log[Len(v_log)].onset

C23_Witness ==
    /\ v_pc = "recv" /\ v_frames = 0 /\ v_detected
    /\ Len(v_log) >= 4
    /\ v_log[Len(v_log)].onset
    /\ \E i \in DOMAIN v_log : v_log[i].speaking /\ v_log[i].rms <= VadThreshold


\* The sessions that received text.
FedSessions == {id \in DOMAIN s_fed : s_fed[id] # {}}

\* C22: a session receives text from at most one attempt; once the turn
\* is over (completed or interrupted) every session that received text is
\* closed, during an attempt every session that received text other than the
\* attempt's own is closed, and the pre-warmed session has received none.
C22_SessionServesOneAttempt ==
    /\ \A id \in DOMAIN s_fed : Cardinality(s_fed[id]) <= 1
    /\ s_pc = "idle" => \A id \in FedSessions : s_state[id] = "closed"
    /\ s_pc \in {"first", "second"} =>
          /\ s_fed[s_stream] \subseteq {s_att}
          /\ \A id \in FedSessions \ {s_stream} : s_state[id] = "closed"
    /\ s_pending # 0 => s_pending \notin FedSessions

\* Two turns are over, the first after a restart: three sessions received
\* text, each from its own attempt.
C22_Witness ==
    /\ s_pc = "idle" /\ s_turns = 2 /\ s_att = 3
    /\ Cardinality(FedSessions) = 3
    /\ \A id \in FedSessions : s_state[id] = "closed"


\* C25: the chunks an attempt sent to the channel are the first chunks the
\* session produced, in the order it produced them, each once and none left
\* out; forward_audio never holds or sends a chunk out of that order.
C25_AudioInProductionOrder ==
    /\ \A i \in DOMAIN a_sent : a_sent[i] = i
    /\ Len(a_sent) <= a_made
    /\ a_held # 0 => a_held = Len(a_sent) + 1

\* Every chunk the session produced was sent and forward_audio ended on the
\* sentinel.
C25_Witness ==
    /\ a_pc = "done" /\ a_made = MaxFwdChunks
    /\ Len(a_sent) = MaxFwdChunks


\* The finals an utterance or a history entry is made of.
FinalsOf(utt) == {utt[i] : i \in DOMAIN utt}

\* C26: a turn starts only by taking the final transcript at the head of the
\* queue (directly, or after the clear that interrupts a playback), finals
\* wait in the queue in the order the recognizer delivered them and every
\* final that started a turn was delivered before every final that still
\* waits; an interim transcript queues nothing, so it starts no turn, and
\* the history refers to delivered finals only.
C26_TurnsStartOnFinalsInOrder ==
    /\ [](\A i, j \in DOMAIN transcript_queue :
              i < j => transcript_queue[i][1] < transcript_queue[j][1])
    /\ [](\A i \in DOMAIN transcript_queue :
              /\ Len(transcript_queue[i]) = 1
              /\ \A f \in FinalsOf(transcript) : f < transcript_queue[i][1]
              /\ \A k \in DOMAIN conversation_history :
                    \A f \in FinalsOf(conversation_history[k].re) :
                        f < transcript_queue[i][1])
    /\ [](\A k \in DOMAIN conversation_history :
              FinalsOf(conversation_history[k].re) \subseteq 1..nFinals)
    /\ [][ (pc = "idle" /\ pc' \notin {"idle", "done"})
              => /\ transcript_queue # <<>>
                 /\ transcript' = Head(transcript_queue)
                 /\ transcript_queue' = Tail(transcript_queue)
                 /\ pc' \in {"race", "connect", "pb_interrupt"} ]_vars
    /\ [][ (pc = "pb_interrupt" /\ pc' \notin {"pb_interrupt", "done"})
              => /\ transcript' = transcript /\ transcript # <<>>
                 /\ pc' \in {"race", "connect"} ]_vars
    /\ [][ (pc' \in {"race", "connect"} /\ pc \notin {"race", "connect"})
              => pc \in {"idle", "pb_interrupt"} ]_vars
    /\ [][ (transcript_queue = <<>> /\ pc = "idle" /\ nFinals' = nFinals)
              => pc' \in {"idle", "done"} ]_vars

\* The second final started a turn after the turn of the first had entered
\* the history.
C26_Witness ==
    /\ pc = "race" /\ transcript = <<2>>
    /\ \E k \in DOMAIN conversation_history :
          conversation_history[k] = UserMsg(<<1>>)


\* C27: a call id has an entry in the registry exactly while a session has
\* processed the start event of that call and neither its stop event nor
\* its end; the entry is the one that session wrote, whatever the other
\* sessions did in between.
C27_RegistryHoldsRunningCalls ==
    \A c \in RegIds :
        /\ r_active[c] # 0 <=>
              \E s \in RegSessions :
                  r_call_sid[s] = c /\ r_phase[s] \in {"started", "disconnected"}
        /\ r_active[c] # 0 => r_call_sid[r_active[c]] = c

\* One call has stopped, one has ended without a stop event and one is
\* still running: only the last has an entry.
C27_Witness ==
    /\ \E s \in RegSessions : r_phase[s] = "stopped" /\ r_call_sid[s] # 0
    /\ \E s \in RegSessions : r_phase[s] = "ended" /\ r_call_sid[s] # 0
    /\ \E s \in RegSessions : r_phase[s] = "started" /\ r_active[r_call_sid[s]] = s
    /\ Cardinality({c \in RegIds : r_active[c] # 0}) = 1


\* The indices at which the text has '.', '!' or '?' followed by a space or
\* a newline.
SentenceEnds(text) ==
    {i \in 0..(Len(text) - 2) :
        text[i + 1] \in {".", "!", "?"} /\ text[i + 2] \in {" ", "\n"}}

\* C28: _find_sentence_boundary returns the index just past the leftmost
\* sentence ending of the text followed by a space or a newline, and -1 when
\* the text has none.
C28_LeftmostSentenceBoundary ==
    b_called =>
        IF SentenceEnds(b_text) = {} THEN b_result = -1
        ELSE \E i \in SentenceEnds(b_text) :
                /\ \A j \in SentenceEnds(b_text) : i <= j
                /\ b_result = i + 2


\* C29: at most one transcription task is running at any time and a task
\* is created only when none is running; the frames taken from the buffer
\* followed by the frames still in it are the frames passed in, each once
\* and in the order of arrival.
C29_OneTaskFramesInOrder ==
    /\ [](Cardinality(RunningTasks) <= 1)
    /\ [](h_taken \o h_buffer = [i \in 1..h_in |-> i])
    /\ [][Len(h_tasks') > Len(h_tasks) => RunningTasks = {}]_vars
    /\ [][h_in' = h_in + 1 => h_buffer' = Append(h_buffer, h_in')]_vars

\* A second task was created after the first had ended, and frames that
\* arrived while a task was running wait in the buffer.
C29_Witness ==
    /\ Len(h_tasks) = 2 /\ h_tasks[1] = "ended" /\ h_tasks[2] = "stream"
    /\ h_in = MaxFrames /\ Len(h_buffer) >= 2 /\ h_taken # <<>>


\* The arguments the claim names as refused: a malformed date, a malformed
\* time, a date before today, an hour outside 9 to 16.
Refused(date, time) ==
    \/ date[1] \notin 1..12 \/ date[2] \notin 1..31
    \/ time[1] \notin 0..23 \/ time[2] \notin 0..59
    \/ date[1] * 100 + date[2] < Today[1] * 100 + Today[2]
    \/ time[1] \notin 9..16

\* C30: a call of book_appointment with a malformed date or time, a date
\* before today or an hour outside 9 to 16 returns success false and leaves
\* the stored appointments as they were; every other call returns success
\* true with an appointment id and the appointment is stored under that id.
C30_BookingValidated ==
    [][ k_calls' = k_calls + 1 =>
          IF Refused(k_last'.date, k_last'.time)
          THEN /\ ~k_last'.success
               /\ k_appointments' = k_appointments
          ELSE /\ k_last'.success
               /\ k_last'.appointment_id \in DOMAIN k_appointments'
               /\ LET rec == k_appointments'[k_last'.appointment_id] IN
                     /\ rec.date = k_last'.date /\ rec.time = k_last'.time
                     /\ rec.name = k_last'.name
                     /\ rec.id = k_last'.appointment_id ]_vars

\* A booking for 16:59 today was stored and a later call for 17:59 was
\* refused without touching it.
C30_Witness ==
    /\ k_calls = 2 /\ ~k_last.success /\ k_last.time = <<17, 59>>
    /\ k_last.date = Today
    /\ \E id \in DOMAIN k_appointments :
          k_appointments[id].time = <<16, 59>> /\ k_appointments[id].date = Today

\* C31: _execute_tool never raises: for an unknown tool name and for a tool
\* that throws, the result it returns has an error field; process_message
\* then goes on through every tool call, records the tool results in the
\* history right after the tool-use entry, asks for the follow-up reply, and
\* a follow-up text ends up as the last assistant entry.
C31_ToolErrorsAreResults ==
    /\ [](\A i \in DOMAIN x_results :
            /\ x_results[i].name = x_calls[i].name
            /\ (x_calls[i].name \notin ToolNames \/ x_calls[i].throws)
                   => x_results[i].error)
    /\ [](x_pc = "s2" =>
            /\ Len(x_results) = Len(x_calls)
            /\ x_history[Len(x_history)] =
                   [role |-> "user", content |-> "tool_result", n |-> Len(x_calls)]
            /\ x_history[Len(x_history) - 1].content = "tool_use")
    /\ []((x_pc = "done" /\ x_events # <<>>
             /\ x_events[Len(x_events)].type = "text") =>
            /\ x_history[Len(x_history)].content = "text"
            /\ x_history[Len(x_history) - 1].content = "tool_result")
    /\ [][(x_pc = "exec" => x_pc' \in {"exec", "results"})
          /\ (x_pc = "results" => x_pc' = "s2")]_vars

C31_Witness ==
    /\ x_pc = "done"
    /\ Len(x_calls) = 2
    /\ x_calls[1].name = "nonexistent_tool"
    /\ x_calls[2].name = "book_appointment" /\ x_calls[2].throws
    /\ Len(x_results) = 2 /\ x_results[1].error /\ x_results[2].error
    /\ x_events[Len(x_events)].type = "text"
    /\ x_history[Len(x_history)].content = "text"

\* C32: process_message appends the user message to the history before it
\* contacts the agent: the step that opens the first stream is the step
\* that appends the user entry, the entry is the last one for as long as
\* the first stream has yielded nothing, it stays when the stream ends
\* with nothing, and a history that starts with the greeting has a user
\* entry second.
C32_UserMessageFirst ==
    /\ [][(ag = "init" /\ ag' # "init" /\ ag' # "none") =>
            /\ ag' = "s1"
            /\ conversation_history' =
                   Append(conversation_history, UserMsg(transcript))]_vars
    /\ []((ag = "s1" /\ ~response_text /\ rt # "restart") =>
            /\ conversation_history # <<>>
            /\ conversation_history[Len(conversation_history)].role = "user")
    /\ [][(ag = "s1" /\ ~response_text /\ ag' = "drain" /\ ~agent_error')
            => conversation_history' = conversation_history]_vars
    /\ []((Len(conversation_history) >= 2
             /\ conversation_history[1] = GreetingMsg)
            => conversation_history[2].role = "user")

C32_Witness ==
    /\ ag = "drain" /\ ~response_text /\ nText = 0 /\ ~agent_error /\ ~aborted
    /\ conversation_history = <<GreetingMsg, UserMsg(transcript)>>

C34_ToolUsePaired ==
    pc = "idle" =>
        \A i \in DOMAIN conversation_history :
            conversation_history[i].content = "tool_use" =>
                /\ i < Len(conversation_history)
                /\ conversation_history[i + 1] =
                       ToolResultMsg(conversation_history[i].re)

\* C35: across a turn and its restarts a tool is executed at most once.
C35_ToolRunsOnce == tool_runs <= 1

\* C36: once end-of-input is signalled, the texts submitted to the
\* synthesis session, concatenated, are the agent's text increments and
\* error messages concatenated in order of generation.
C36_SubmittedInOrder == p_eos => Join(p_out) = Generated(p_in)

\* C37: on the fallback path, once the onset is raised while the reply is
\* being generated, no further audio of the turn is sent, and the turn ends
\* with its history entries rolled back to the checkpoint.
C37_OnsetStopsFallback ==
    [][(speech_detected /\ pc \in {"rest", "rest_send"}) =>
         ( ~(Len(sent') > Len(sent) /\ sent'[Len(sent')].ev = "media")
           /\ (pc' \notin {"rest", "rest_send", "done"} =>
                 conversation_history' =
                     Truncate(conversation_history, history_checkpoint)) )]_vars

\* C38: between audio of the failed attempt and audio of the retry the
\* channel is sent a clear.
C38_ClearBeforeRetryAudio ==
    \A i, j \in DOMAIN y_sent :
        (i < j /\ y_sent[i] = RetryMedia("first")
               /\ y_sent[j] = RetryMedia("second"))
            => \E k \in DOMAIN y_sent :
                   i < k /\ k < j /\ y_sent[k].ev = "clear"

\* C39: every successful book_appointment call stores its appointment
\* under an id that no earlier booking holds, so each successful call adds
\* one stored appointment.
C39_FreshAppointmentId ==
    [][(k_calls' = k_calls + 1 /\ k_last'.success) =>
         ( k_last'.appointment_id \notin DOMAIN k_appointments
           /\ Cardinality(DOMAIN k_appointments') =
                  Cardinality(DOMAIN k_appointments) + 1 )]_vars

\* C40: an appointment that one call booked and saved is still in the file,
\* unchanged, after a booking the other call makes in a later second.
C40_FileKeepsOtherCallsBooking ==
    [][\A id \in DOMAIN m_file :
          (\E c \in FileCalls :
               /\ id # m_now
               /\ m_file[id].call # c
               /\ m_apps'[c] # m_apps[c]
               /\ m_state[c] = "active")
            => (id \in DOMAIN m_file' /\ m_file'[id] = m_file[id])]_vars

=============================================================================
